---- MODULE Spec2Model ----
(***************************************************************************)
(* Model of the Ricky autometer core: the fare engine                      *)
(* (backend/fare_calculator.py), the geo engine state it reads             *)
(* (backend/gps_manager.py), and the mode path selector -> ModeController  *)
(* -> RickyUI.update_mode -> FareCalculator.start/stop_private_mode.       *)
(*                                                                         *)
(* Units (the code uses floats; the model uses exact integers):            *)
(*   position, distance : metres along the route (0.005 km = 5)            *)
(*   time               : seconds of time.time()                           *)
(*   fare               : 1/3000 rupee, so that both charges are integers: *)
(*                        distance charge m/1000 * rate = 3*m*rate units,  *)
(*                        waiting charge dt/60 * 2.0    = 100*dt units     *)
(*   waiting_time       : seconds (the code keeps minutes = seconds/60)    *)
(***************************************************************************)
EXTENDS Integers, Sequences, FiniteSets, TLC

\* ---------------------------------------------------------------- bounds
MaxTime == 2          \* the GPS loop stops after MaxTime one-second samples
MaxRides == 1         \* alightings are offered while fewer rides are logged
SosMaxTime == 5       \* the clock of the emergency track stops here
MaxPresses == 2       \* assertions of the emergency line
MaxEvents == 2        \* switch lines are operated while fewer events were emitted
MaxCalls == 2         \* the main thread calls into the fare engine this often
AlarmMaxTime == 10    \* the clock stops here when two holds are to fit in
StopPresses == 1      \* assertions of the emergency line around a shutdown

\* ------------------------------------------------------ program constants
NumPassengers == 3            \* range(3)
DefaultFareRate == 12         \* fare_rate_per_km=12.0
MinimumSpeedThreshold == 2    \* km/h, below this is waiting
NoiseFloor == 5               \* 0.005 km
MinTickDelta == 1             \* time_delta >= 1.0
FareUnitsPerRupee == 3000
WaitingUnitsPerSecond == 100  \* (1/60) * 2.0 rupee per second, in fare units
DefaultLocation == 100        \* (19.0760, 72.8777), as a route position
SosHoldSeconds == 5           \* hold_time >= 5.0
CountdownFrom == 5            \* range(5, 0, -1)
CountdownSleep == 1           \* time.sleep(1) of the countdown
NumBeeps == 9                 \* 3 short, 3 long, 3 short

NoLoc == 0            \* None for a location
NoTime == 0 - 1       \* None for a timestamp
NoRide == <<>>        \* None for a ride id
NoTrip == 0 - 1       \* no reset_trip has happened yet
NoSample == [loc |-> NoLoc, speed |-> 0, distance_moved |-> 0, total |-> 0,
             fresh |-> FALSE]

\* The objects with a running flag, and the threads that loop on one.
Managers == {"gpio", "gps", "fare"}
PollingThreads == {"passenger_monitor", "mode_monitor", "sos_monitor",
                   "gps_loop", "calculation_loop"}

Slots == 0 .. (NumPassengers - 1)
EventSlots == {0}                 \* slots whose presence switch is operated
Locations == {100, 103, 106}      \* GPS fixes the samplers may publish
Speeds == {0, 15}                 \* km/h
Rates == {12, 15}                 \* arguments of set_fare_rate
MODES == {"For Hire", "Private", "Sharing", "Waiting"}
\* GPIOManager.MODES, in the order its items are iterated
ModePinOrder == <<"mode_private", "mode_sharing", "mode_waiting", "mode_for_hire">>
ModeOfPin == [mode_private |-> "Private", mode_sharing |-> "Sharing",
              mode_waiting |-> "Waiting", mode_for_hire |-> "For Hire"]
ModePins == {ModePinOrder[i] : i \in 1 .. Len(ModePinOrder)}
ModeNames == MODES \cup {"Unknown"}   \* arguments of handle_mode_change

VARIABLES
    now,                    \* time.time()
    gps_location,           \* GPSManager.current_location
    gps_previous_location,  \* GPSManager.previous_location
    gps_speed,              \* GPSManager.current_speed
    gps_total_distance,     \* GPSManager.total_distance_traveled
    fare_rate_per_km,
    last_gps_update,
    passengers,             \* FareCalculator.passengers
    private_mode_active,
    private_fare,
    private_start_location,
    private_last_location,
    private_start_time,
    private_distance,
    private_waiting_time,
    private_max_speed,      \* history: highest speed observed during the private trip
    private_ride_data,      \* records returned by stop_private_mode
    pc_tick,                \* position of the _calculation_loop thread
    t_location,             \* its locals: current_location,
    t_speed,                \*             current_speed,
    t_time,                 \*             current_time
    ride_completed,         \* records emitted on the ride_completed signal
    charge_sum,             \* history: charges applied to a slot during its ride
    gpio_mode,              \* GPIOManager.current_mode
    mc_mode,                \* ModeController.current_mode
    ui_mode,                \* RickyUI.current_mode
    mode_changed,           \* what the last handle_mode_change call emitted
    mode_pins,              \* asserted (LOW) lines of the rotary switch
    passenger_pins,         \* asserted (LOW) lines of the presence switches
    passenger_states,       \* GPIOManager.passenger_states
    passenger_changed,      \* emissions of GPIOManager.passenger_changed
    mode_switch_changed,    \* emissions of GPIOManager.mode_switch_changed
    lock,                   \* holder of FareCalculator.lock
    main_call,              \* the FareCalculator method the main thread is in
    fare_events,            \* fare signals emitted by the fare tick in progress
    engine_calls,           \* history: calls of the main thread into the fare engine
    slot_error,             \* history: the last presence event raised in its handler
    pc_gps,                 \* position of the GPS loop thread inside an iteration
    g_sample,               \* its locals: the sample, distance_moved, the total read
    trip_moved,             \* history: distance of the samples taken since reset_trip
    running,                \* the running flags of GPIOManager, GPSManager, FareCalculator
    threads,                \* the polling threads that have not returned
    pc_shutdown,            \* position of RickyAutometer.shutdown
    mc_pc,                  \* position of ModeController.start
    mode_monitor_pc,        \* position of the _monitor_mode_switch thread
    mode_queue,             \* mode_switch_changed emissions queued to the main thread
    sos_line,               \* GPIO.input(sos_button) == GPIO.LOW
    line_seen,              \* the sampler has polled the line since it went LOW
    mon_pc,                 \* position of the _monitor_sos_button thread
    press_start,            \* its local press_start
    gpio_sos_active,        \* GPIOManager.sos_active
    sos_buzzer,             \* level driven on the buzzer and LED pins
    sos_pattern,            \* positions of the running _sos_pattern threads
    sos_signals,            \* sos_button_pressed/released queued to the main thread
    sos_active,             \* SOSSystem.sos_active
    countdown_active,       \* SOSSystem.countdown_active
    current_countdown,      \* SOSSystem.current_countdown
    countdown_threads,      \* the running _countdown_loop threads
    sos_status,             \* last message emitted on sos_status_changed
    presses,                \* history: assertions of the emergency line so far
    line_held,              \* history: seconds the line is (was last) held
    released_active,        \* history: the line was released while Active
    assert_normal,          \* history: the line was asserted while Normal
    hold_activations,       \* history: sos_activated records since the assertion
    deactivated_events      \* history: emissions of sos_deactivated so far

gpsVars == <<gps_location, gps_previous_location, gps_speed,
             gps_total_distance>>
privVars == <<private_mode_active, private_fare, private_start_location,
              private_last_location, private_start_time, private_distance,
              private_waiting_time, private_max_speed>>
tickVars == <<pc_tick, t_location, t_speed, t_time>>
modeVars == <<gpio_mode, mc_mode, ui_mode, mode_changed>>
samplerVars == <<mode_pins, passenger_pins, passenger_states,
                 passenger_changed, mode_switch_changed>>
meterVars == <<gpsVars, fare_rate_per_km, last_gps_update, passengers,
               privVars, private_ride_data, tickVars, ride_completed,
               charge_sum, modeVars>>
sosVars == <<sos_line, line_seen, mon_pc, press_start, gpio_sos_active, sos_buzzer,
             sos_pattern, sos_signals, sos_active, countdown_active,
             current_countdown, countdown_threads, sos_status, presses,
             line_held, released_active, assert_normal, hold_activations,
             deactivated_events>>
lockVars == <<lock, main_call, fare_events, engine_calls>>
geoVars == <<pc_gps, g_sample, trip_moved>>
stopVars == <<running, threads, pc_shutdown>>
startVars == <<mc_pc, mode_monitor_pc, mode_queue>>
\* what only the tracks of the handler errors, the GPS loop steps, the
\* shutdown and the start-up look at
auxVars == <<slot_error, geoVars, stopVars, startVars>>
\* everything but the clock and the emergency track
restVars == <<meterVars, samplerVars, lockVars, auxVars>>
vars == <<now, meterVars, samplerVars, lockVars, sosVars, auxVars>>

\* ------------------------------------------------------------ pure helpers
Abs(x) == IF x < 0 THEN 0 - x ELSE x

\* Python round(): n/d to the nearest integer, ties to the even one (n >= 0).
RoundHalfEven(n, d) ==
    LET q == n \div d
        r == n % d
    IN  IF 2 * r < d THEN q
        ELSE IF 2 * r > d THEN q + 1
        ELSE IF q % 2 = 0 THEN q ELSE q + 1

\* GPSManager.calculate_distance: 0.0 when a coordinate is falsy, else the
\* great-circle distance, here the distance along the route.
calculate_distance(loc1, loc2) ==
    IF loc1 = 0 \/ loc2 = 0 THEN 0 ELSE Abs(loc2 - loc1)

\* FareCalculator._calculate_distance
Distance(loc1, loc2) ==
    IF loc1 = NoLoc \/ loc2 = NoLoc THEN 0 ELSE calculate_distance(loc1, loc2)

ZeroLeg ==
    [onboard |-> FALSE, fare |-> 0, start_location |-> NoLoc,
     last_location |-> NoLoc, start_time |-> NoTime, total_distance |-> 0,
     ride_id |-> NoRide, waiting_time |-> 0]

Init ==
    /\ now = 0
    /\ gps_location = DefaultLocation
    /\ gps_previous_location = NoLoc
    /\ gps_speed = 0
    /\ gps_total_distance = 0
    /\ fare_rate_per_km = DefaultFareRate
    /\ last_gps_update = 0
    /\ passengers = [p \in Slots |-> ZeroLeg]
    /\ private_mode_active = FALSE
    /\ private_fare = 0
    /\ private_start_location = NoLoc
    /\ private_last_location = NoLoc
    /\ private_start_time = NoTime
    /\ private_distance = 0
    /\ private_waiting_time = 0
    /\ private_max_speed = 0
    /\ private_ride_data = <<>>
    /\ pc_tick = "read"
    /\ t_location = NoLoc
    /\ t_speed = 0
    /\ t_time = 0
    /\ ride_completed = <<>>
    /\ charge_sum = [p \in Slots |-> 0]
    /\ gpio_mode = "For Hire"
    /\ mc_mode = "For Hire"
    /\ ui_mode = "For Hire"
    /\ mode_changed = <<>>
    /\ mode_pins = {}
    /\ passenger_pins = [p \in Slots |-> FALSE]
    /\ passenger_states = [p \in Slots |-> FALSE]
    /\ passenger_changed = <<>>
    /\ mode_switch_changed = <<>>
    /\ lock = "free"
    /\ main_call = <<>>
    /\ fare_events = <<>>
    /\ engine_calls = 0
    /\ slot_error = FALSE
    /\ pc_gps = "sample"
    /\ g_sample = NoSample
    /\ trip_moved = NoTrip
    /\ running = [t \in Managers |-> TRUE]
    /\ threads = PollingThreads
    /\ pc_shutdown = "run"
    /\ mc_pc = "connect"
    /\ mode_monitor_pc = "poll"
    /\ mode_queue = <<>>
    /\ sos_line = FALSE
    /\ line_seen = FALSE
    /\ mon_pc = "poll"
    /\ press_start = 0
    /\ gpio_sos_active = FALSE
    /\ sos_buzzer = FALSE
    /\ sos_pattern = <<>>
    /\ sos_signals = <<>>
    /\ sos_active = FALSE
    /\ countdown_active = FALSE
    /\ current_countdown = 0
    /\ countdown_threads = <<>>
    /\ sos_status = <<"NONE", 0>>
    /\ presses = 0
    /\ line_held = 0
    /\ released_active = FALSE
    /\ assert_normal = FALSE
    /\ hold_activations = 0
    /\ deactivated_events = 0

\* ------------------------------------------------------------- geo engine
\* One iteration of the GPS loop (_enhanced_simulation_loop lines 123-141 and
\* its one-second sleep; _serial_loop lines 172-180 at the receiver's 1 Hz):
\* a second passes, the distance from previous_location to the new fix is
\* added to the trip distance, and the new fix and speed are published.
GpsSample(loc, speed) ==
    /\ UNCHANGED <<samplerVars, lockVars, sosVars, auxVars>>
    /\ now < MaxTime
    /\ now' = now + 1
    /\ gps_total_distance' =
           (IF gps_previous_location # NoLoc
            THEN gps_total_distance + calculate_distance(gps_previous_location, loc)
            ELSE gps_total_distance)
    /\ gps_previous_location' = gps_location
    /\ gps_location' = loc
    /\ gps_speed' = speed
    /\ private_max_speed' = (IF private_mode_active /\ speed > private_max_speed
                             THEN speed ELSE private_max_speed)
    /\ UNCHANGED <<fare_rate_per_km, last_gps_update, passengers,
                   private_mode_active, private_fare, private_start_location,
                   private_last_location, private_start_time, private_distance,
                   private_waiting_time, private_ride_data, tickVars,
                   ride_completed, charge_sum, modeVars>>

\* Mutant: the trip reset forgets the distance accumulator.
reset_trip_keeps_distance ==
    /\ gps_total_distance' = gps_total_distance
    /\ gps_previous_location' = NoLoc

\* GPSManager.reset_trip (trip_start_time is not modelled).
reset_trip ==
    /\ gps_total_distance' = 0
    /\ gps_previous_location' = NoLoc

\* ------------------------------------------------------------ fare engine
\* Mutant: the distance charge ignores the runtime rate.
DistanceFareDefaultRate(distance_moved, rate) ==
    distance_moved * DefaultFareRate * (FareUnitsPerRupee \div 1000)

DistanceFare(distance_moved, rate) ==
    distance_moved * rate * (FareUnitsPerRupee \div 1000)

WaitingCharge(time_delta) == time_delta * WaitingUnitsPerSecond

\* Mutant: no noise floor, any movement is counted.
AnyMovement(distance_moved) == distance_moved > 0

\* "Only count significant movement (> 5 meters)": distance_moved > 0.005
SignificantMovement(distance_moved) == distance_moved > NoiseFloor

\* Mutant: the waiting charge is applied only when no distance was charged.
UpdatePassengerFareExclusive(passenger, current_location, current_speed, time_delta, rate) ==
    IF passenger.last_location = NoLoc
    THEN [passenger EXCEPT !.last_location = current_location]
    ELSE LET distance_moved == Distance(passenger.last_location, current_location)
         IN  IF SignificantMovement(distance_moved)
             THEN [passenger EXCEPT
                     !.fare = @ + DistanceFare(distance_moved, rate),
                     !.total_distance = @ + distance_moved,
                     !.last_location = current_location]
             ELSE IF current_speed < MinimumSpeedThreshold
             THEN [passenger EXCEPT !.fare = @ + WaitingCharge(time_delta),
                                    !.waiting_time = @ + time_delta]
             ELSE passenger

\* _update_passenger_fare: the leg after one tick.
UpdatePassengerFare(passenger, current_location, current_speed, time_delta, rate) ==
    IF passenger.last_location = NoLoc
    THEN [passenger EXCEPT !.last_location = current_location]
    ELSE LET distance_moved == Distance(passenger.last_location, current_location)
             moved == IF SignificantMovement(distance_moved)
                      THEN [passenger EXCEPT
                              !.fare = @ + DistanceFare(distance_moved, rate),
                              !.total_distance = @ + distance_moved,
                              !.last_location = current_location]
                      ELSE passenger
         IN  IF current_speed < MinimumSpeedThreshold
             THEN [moved EXCEPT !.fare = @ + WaitingCharge(time_delta),
                                !.waiting_time = @ + time_delta]
             ELSE moved

\* The private leg as one record, for _update_private_fare.
PrivateLeg ==
    [fare |-> private_fare, last_location |-> private_last_location,
     distance |-> private_distance, waiting_time |-> private_waiting_time]

\* _update_private_fare: the private leg after one tick.
UpdatePrivateFare(leg, current_location, current_speed, time_delta, rate) ==
    IF leg.last_location = NoLoc
    THEN [leg EXCEPT !.last_location = current_location]
    ELSE LET distance_moved == Distance(leg.last_location, current_location)
             moved == IF SignificantMovement(distance_moved)
                      THEN [leg EXCEPT
                              !.fare = @ + DistanceFare(distance_moved, rate),
                              !.distance = @ + distance_moved,
                              !.last_location = current_location]
                      ELSE leg
         IN  IF current_speed < MinimumSpeedThreshold
             THEN [moved EXCEPT !.fare = @ + WaitingCharge(time_delta),
                                !.waiting_time = @ + time_delta]
             ELSE moved

\* Mutant: the loop updates every slot, onboard or not.
TickLegAlways(passenger, current_location, current_speed, time_delta, rate) ==
    UpdatePassengerFare(passenger, current_location, current_speed,
                        time_delta, rate)

\* _calculation_loop, lines 93-97: only an onboard passenger is updated.
TickLeg(passenger, current_location, current_speed, time_delta, rate) ==
    IF passenger.onboard
    THEN UpdatePassengerFare(passenger, current_location, current_speed,
                             time_delta, rate)
    ELSE passenger

\* _calculation_loop, lines 85-90: read the sample and the clock outside the
\* lock.  An iteration with time_delta < 1.0 only sleeps and changes nothing.
TickRead ==
    /\ UNCHANGED <<samplerVars, lockVars, sosVars, auxVars>>
    /\ pc_tick = "read"
    /\ gps_location # NoLoc
    /\ now - last_gps_update >= MinTickDelta
    /\ pc_tick' = "apply"
    /\ t_location' = gps_location
    /\ t_speed' = gps_speed
    /\ t_time' = now
    /\ UNCHANGED <<now, gpsVars, fare_rate_per_km, last_gps_update, passengers,
                   privVars, private_ride_data, ride_completed, charge_sum,
                   modeVars>>

\* _calculation_loop, lines 91-103: under the lock every onboard leg is updated
\* against the values read above, then last_gps_update = current_time.
TickApply ==
    /\ UNCHANGED <<samplerVars, lockVars, sosVars, auxVars>>
    /\ pc_tick = "apply"
    /\ LET time_delta == t_time - last_gps_update
           after == [p \in Slots |->
                        TickLeg(passengers[p], t_location, t_speed,
                                time_delta, fare_rate_per_km)]
           priv == IF private_mode_active
                   THEN UpdatePrivateFare(PrivateLeg, t_location, t_speed,
                            time_delta, fare_rate_per_km)
                   ELSE PrivateLeg
       IN  /\ passengers' = after
           /\ charge_sum' = [p \in Slots |->
                                charge_sum[p] + (after[p].fare - passengers[p].fare)]
           /\ private_fare' = priv.fare
           /\ private_last_location' = priv.last_location
           /\ private_distance' = priv.distance
           /\ private_waiting_time' = priv.waiting_time
    /\ last_gps_update' = t_time
    /\ pc_tick' = "read"
    /\ t_location' = NoLoc
    /\ t_speed' = 0
    /\ t_time' = 0
    /\ UNCHANGED <<now, gpsVars, fare_rate_per_km, private_mode_active,
                   private_start_location, private_start_time,
                   private_max_speed, private_ride_data, ride_completed,
                   modeVars>>

\* Mutant: boarding forgets to capture last_location.
BoardedLegNoLastLocation(passenger_id, current_location) ==
    [onboard |-> TRUE, fare |-> 0, start_location |-> current_location,
     last_location |-> NoLoc, start_time |-> now,
     total_distance |-> 0, ride_id |-> <<passenger_id + 1, now>>,
     waiting_time |-> 0]

\* handle_passenger_change, lines 195-207: the leg of a boarding passenger.
BoardedLeg(passenger_id, current_location) ==
    [onboard |-> TRUE, fare |-> 0, start_location |-> current_location,
     last_location |-> current_location, start_time |-> now,
     total_distance |-> 0, ride_id |-> <<passenger_id + 1, now>>,
     waiting_time |-> 0]

\* Mutant: the fare is truncated to paise instead of rounded.
FareAmountTruncated(fare) == fare \div (FareUnitsPerRupee \div 100)

\* round(passenger['fare'], 2): the fare in paise.
FareAmount(fare) == RoundHalfEven(fare, FareUnitsPerRupee \div 100)

\* handle_passenger_change, lines 212-237: ride_data of an alighting passenger.
\* Rounded fields are kept in their rounding unit: duration and waiting in
\* tenths of a minute, distances in metres, fare in paise, speed in tenths
\* of a km/h.
RideData(passenger_id, passenger, current_location) ==
    LET duration == now - passenger.start_time
        final_distance ==
            IF passenger.start_location # NoLoc /\ current_location # NoLoc
            THEN Distance(passenger.start_location, current_location)
            ELSE 0
    IN  [ride_id |-> passenger.ride_id,
         passenger_id |-> passenger_id + 1,
         start_time |-> passenger.start_time,
         end_time |-> now,
         duration_minutes |-> RoundHalfEven(duration, 6),
         total_distance_km |-> RoundHalfEven(passenger.total_distance, 1),
         straight_line_distance_km |-> RoundHalfEven(final_distance, 1),
         fare_amount |-> FareAmount(passenger.fare),
         fare_rate_per_km |-> fare_rate_per_km,
         waiting_time_minutes |-> RoundHalfEven(passenger.waiting_time, 6),
         start_location |-> passenger.start_location,
         end_location |-> current_location,
         average_speed |-> IF duration > 0
                           THEN RoundHalfEven(36 * passenger.total_distance, duration)
                           ELSE 0]

\* Mutant: the reset leaves the fare and the distance of the finished ride.
ResetLegKeepsFare(passenger) ==
    [ZeroLeg EXCEPT !.fare = passenger.fare,
                    !.total_distance = passenger.total_distance]

\* handle_passenger_change, lines 249-257: passenger.update({...}) after the
\* emit; 'onboard' was cleared at line 211.
ResetLeg(passenger) == ZeroLeg

\* handle_passenger_change(passenger_id, onboard), the whole handler under
\* the lock.
handle_passenger_change(passenger_id, onboard) ==
    IF passenger_id >= NumPassengers
    THEN UNCHANGED <<passengers, ride_completed, charge_sum>>
    ELSE LET passenger == passengers[passenger_id]
             current_location == gps_location
         IN  IF onboard /\ ~passenger.onboard
             THEN /\ passengers' = [passengers EXCEPT ![passenger_id] =
                                       BoardedLeg(passenger_id, current_location)]
                  /\ charge_sum' = [charge_sum EXCEPT ![passenger_id] = 0]
                  /\ UNCHANGED ride_completed
             ELSE IF ~onboard /\ passenger.onboard
             THEN /\ ride_completed' = Append(ride_completed,
                         RideData(passenger_id, passenger, current_location))
                  /\ passengers' = [passengers EXCEPT ![passenger_id] =
                                       ResetLeg(passenger)]
                  /\ charge_sum' = [charge_sum EXCEPT ![passenger_id] = 0]
             ELSE UNCHANGED <<passengers, ride_completed, charge_sum>>

\* A presence event delivered to the fare engine (main.py line 85).
PresenceEvent(passenger_id, onboard) ==
    /\ UNCHANGED <<samplerVars, lockVars, sosVars, auxVars>>
    /\ ~onboard => Len(ride_completed) < MaxRides
    /\ handle_passenger_change(passenger_id, onboard)
    /\ UNCHANGED <<now, gpsVars, fare_rate_per_km, last_gps_update, privVars,
                   private_ride_data, tickVars, modeVars>>

\* Mutant: a rate change recomputes the fare of the legs from their distance.
set_fare_rate_recomputes(rate) ==
    /\ fare_rate_per_km' = rate
    /\ passengers' = [p \in Slots |->
           IF passengers[p].onboard
           THEN [passengers[p] EXCEPT
                    !.fare = DistanceFare(passengers[p].total_distance, rate)]
           ELSE passengers[p]]
    /\ UNCHANGED privVars

\* set_fare_rate(rate): only the rate is assigned.
set_fare_rate(rate) ==
    /\ fare_rate_per_km' = rate
    /\ UNCHANGED <<passengers, privVars>>

SetFareRate(rate) ==
    /\ UNCHANGED <<samplerVars, lockVars, sosVars, auxVars>>
    /\ set_fare_rate(rate)
    /\ UNCHANGED <<now, gpsVars, last_gps_update, private_ride_data, tickVars,
                   ride_completed, charge_sum, modeVars>>

\* ------------------------------------------------------------ private leg
\* start_private_mode, under the lock.  The history private_max_speed is the
\* highest speed among the samples published since.
start_private_mode ==
    /\ private_mode_active' = TRUE
    /\ private_fare' = 0
    /\ private_start_location' = gps_location
    /\ private_last_location' = gps_location
    /\ private_start_time' = now
    /\ private_distance' = 0
    /\ private_waiting_time' = 0
    /\ private_max_speed' = 0
    /\ reset_trip

Max(a, b) == IF a >= b THEN a ELSE b

\* stop_private_mode, lines 283-312: ride_data of the private trip.  Rounded
\* fields are kept in their rounding unit: duration and waiting in tenths of
\* a minute, distances in metres, fare in paise, speeds in tenths of a km/h.
PrivateRideData ==
    LET duration == now - private_start_time
        current_location == gps_location
        straight_line_distance ==
            IF private_start_location # NoLoc /\ current_location # NoLoc
            THEN Distance(private_start_location, current_location)
            ELSE 0
    IN  [ride_id |-> <<"PRIVATE", now>>,
         start_time |-> private_start_time,
         end_time |-> now,
         duration_minutes |-> RoundHalfEven(duration, 6),
         calculated_distance_km |-> RoundHalfEven(private_distance, 1),
         gps_total_distance_km |-> RoundHalfEven(gps_total_distance, 1),
         straight_line_distance_km |-> RoundHalfEven(straight_line_distance, 1),
         fare_amount |-> FareAmount(private_fare),
         fare_rate_per_km |-> fare_rate_per_km,
         waiting_time_minutes |-> RoundHalfEven(private_waiting_time, 6),
         start_location |-> private_start_location,
         end_location |-> current_location,
         average_speed |-> IF duration > 0
                           THEN RoundHalfEven(36 * gps_total_distance, duration)
                           ELSE 0,
         max_speed |-> RoundHalfEven(10 * Max(0, gps_speed), 1)]

\* stop_private_mode: with a trip active it clears the flag and nothing else;
\* with none active it does nothing.
stop_private_mode ==
    /\ private_mode_active' = (IF private_mode_active THEN FALSE
                               ELSE private_mode_active)
    /\ UNCHANGED <<private_fare, private_start_location, private_last_location,
                   private_start_time, private_distance, private_waiting_time,
                   private_max_speed, gps_previous_location,
                   gps_total_distance>>

\* The value stop_private_mode returns: ride_data, or None.
stop_private_mode_result ==
    IF private_mode_active THEN <<PrivateRideData>> ELSE <<>>

\* A direct call of FareCalculator.stop_private_mode(), the "explicit stop";
\* the caller keeps the returned record.
StopPrivateMode ==
    /\ UNCHANGED <<samplerVars, lockVars, sosVars, auxVars>>
    /\ private_mode_active => Len(private_ride_data) < MaxRides
    /\ stop_private_mode
    /\ private_ride_data' = private_ride_data \o stop_private_mode_result
    /\ UNCHANGED <<now, gps_location, gps_speed, fare_rate_per_km,
                   last_gps_update, passengers, tickVars, ride_completed,
                   charge_sum, modeVars>>

\* ------------------------------------------------------------- mode path
\* RickyUI.update_mode(mode): current_mode is assigned first, so the elif at
\* line 330 compares the new mode with itself.  The record stop_private_mode
\* returns is dropped.
update_mode(mode) ==
    /\ ui_mode' = mode
    /\ IF mode = "Private"
       THEN start_private_mode
       ELSE IF ui_mode' = "Private" /\ mode # "Private"
       THEN stop_private_mode
       ELSE UNCHANGED <<privVars, gps_previous_location, gps_total_distance>>

\* A handle_mode_change without the membership test of line 44.
handle_mode_change_any(mode_name) ==
    IF mode_name # mc_mode
    THEN /\ mc_mode' = mode_name
         /\ mode_changed' = <<mode_name>>
         /\ update_mode(mode_name)
    ELSE /\ mode_changed' = <<>>
         /\ UNCHANGED <<mc_mode, ui_mode, privVars, gps_previous_location,
                        gps_total_distance>>

\* ModeController.handle_mode_change(mode_name): emits mode_changed, which
\* main.py line 81 connects to RickyUI.update_mode.
handle_mode_change(mode_name) ==
    IF mode_name \in MODES /\ mode_name # mc_mode
    THEN /\ mc_mode' = mode_name
         /\ mode_changed' = <<mode_name>>
         /\ update_mode(mode_name)
    ELSE /\ mode_changed' = <<>>
         /\ UNCHANGED <<mc_mode, ui_mode, privVars, gps_previous_location,
                        gps_total_distance>>

\* A mode change that clears the sharing legs when it enters For Hire.
SelectorEventClearsLegs(selected_mode) ==
    /\ UNCHANGED <<samplerVars, lockVars, sosVars, auxVars>>
    /\ selected_mode # gpio_mode
    /\ gpio_mode' = selected_mode
    /\ handle_mode_change(selected_mode)
    /\ passengers' = (IF selected_mode = "For Hire"
                      THEN [p \in Slots |-> ResetLeg(passengers[p])]
                      ELSE passengers)
    /\ UNCHANGED <<now, gps_location, gps_speed, fare_rate_per_km,
                   last_gps_update, private_ride_data, tickVars,
                   ride_completed, charge_sum>>

\* GPIOManager._monitor_mode_switch, lines 178-189: a poll that resolves to
\* a mode other than the reported one emits mode_switch_changed.
SelectorEvent(selected_mode) ==
    /\ UNCHANGED <<samplerVars, lockVars, sosVars, auxVars>>
    /\ selected_mode # gpio_mode
    /\ gpio_mode' = selected_mode
    /\ handle_mode_change(selected_mode)
    /\ UNCHANGED <<now, gps_location, gps_speed, fare_rate_per_km,
                   last_gps_update, passengers, private_ride_data, tickVars,
                   ride_completed, charge_sum>>

\* The sharing legs: GPS loop, fare loop, presence switches, rate changes.
Next ==
    \/ \E loc \in Locations, speed \in Speeds : GpsSample(loc, speed)
    \/ TickRead
    \/ TickApply
    \/ \E p \in EventSlots, onboard \in BOOLEAN : PresenceEvent(p, onboard)
    \/ \E rate \in Rates : SetFareRate(rate)

Spec == Init /\ [][Next]_vars

\* The private leg: GPS loop, fare loop, mode selector, rate changes.
NextPrivate ==
    \/ \E loc \in Locations, speed \in Speeds : GpsSample(loc, speed)
    \/ TickRead
    \/ TickApply
    \/ \E m \in MODES : SelectorEvent(m)
    \/ \E rate \in Rates : SetFareRate(rate)

SpecPrivate == Init /\ [][NextPrivate]_vars

\* The private-mode slice with stop_private_mode called: the method is public
\* but update_mode never reaches its call, so it is exercised here as an
\* operation of its own next to the sampler, the fare loop and the selector.
NextPrivateStop ==
    \/ \E loc \in Locations, speed \in Speeds : GpsSample(loc, speed)
    \/ TickRead
    \/ TickApply
    \/ \E m \in MODES : SelectorEvent(m)
    \/ StopPrivateMode

SpecPrivateStop == Init /\ [][NextPrivateStop]_vars

\* Sharing legs and private leg together, at the initial rate; the selector
\* is turned between Private and Sharing.
NextMeter ==
    \/ \E loc \in Locations, speed \in Speeds : GpsSample(loc, speed)
    \/ TickRead
    \/ TickApply
    \/ \E p \in EventSlots, onboard \in BOOLEAN : PresenceEvent(p, onboard)
    \/ \E m \in {"Private", "Sharing"} : SelectorEvent(m)

SpecMeter == Init /\ [][NextMeter]_vars

\* Sharing legs and private leg accumulating together under rate changes:
\* passengers board and stay on board.
NextRate ==
    \/ \E loc \in Locations, speed \in Speeds : GpsSample(loc, speed)
    \/ TickRead
    \/ TickApply
    \/ \E p \in EventSlots : PresenceEvent(p, TRUE)
    \/ \E m \in MODES : SelectorEvent(m)
    \/ \E rate \in Rates : SetFareRate(rate)

SpecRate == Init /\ [][NextRate]_vars

\* The private leg in a vehicle that stands still at the initial rate: every
\* sample repeats the fix with speed 0.
NextStationary ==
    \/ \E loc \in {gps_location}, speed \in {0} : GpsSample(loc, speed)
    \/ TickRead
    \/ TickApply
    \/ \E m \in MODES : SelectorEvent(m)

SpecStationary == Init /\ [][NextStationary]_vars


\* --------------------------------------------------- digital input sampler
\* The rotary switch is turned: any set of its four lines may read LOW.
ModePinsChange(pins) ==
    /\ pins # mode_pins
    /\ Len(passenger_changed) + Len(mode_switch_changed) < MaxEvents
    /\ mode_pins' = pins
    /\ UNCHANGED <<now, meterVars, passenger_pins, passenger_states,
                   passenger_changed, mode_switch_changed, lockVars, sosVars, auxVars>>

\* A presence switch is operated: its line changes level.
PassengerPinChange(p) ==
    /\ Len(passenger_changed) + Len(mode_switch_changed) < MaxEvents
    /\ passenger_pins' = [passenger_pins EXCEPT ![p] = ~@]
    /\ UNCHANGED <<now, meterVars, mode_pins, passenger_states,
                   passenger_changed, mode_switch_changed, lockVars, sosVars, auxVars>>

\* A resolution that lets the last asserted line win.
ResolveModeLast(pins) ==
    LET asserted == {i \in 1 .. Len(ModePinOrder) : ModePinOrder[i] \in pins}
    IN  IF asserted = {}
        THEN "For Hire"
        ELSE ModeOfPin[ModePinOrder[
                 CHOOSE i \in asserted : \A j \in asserted : i >= j]]

\* _monitor_mode_switch, lines 163-176: the loop over MODES.items() stops at
\* the first line that reads LOW; with none LOW the mode is For Hire.
ResolveMode(pins) ==
    LET asserted == {i \in 1 .. Len(ModePinOrder) : ModePinOrder[i] \in pins}
    IN  IF asserted = {}
        THEN "For Hire"
        ELSE ModeOfPin[ModePinOrder[
                 CHOOSE i \in asserted : \A j \in asserted : i <= j]]

\* One poll of _monitor_mode_switch (lines 163-189): a resolved mode other
\* than the reported one is stored and emitted on mode_switch_changed, which
\* ModeController.start connects to handle_mode_change.
ModePoll ==
    LET selected_mode == ResolveMode(mode_pins)
    IN  /\ selected_mode # gpio_mode
        /\ gpio_mode' = selected_mode
        /\ mode_switch_changed' = Append(mode_switch_changed, selected_mode)
        /\ handle_mode_change(selected_mode)
        /\ UNCHANGED <<now, gps_location, gps_speed, fare_rate_per_km,
                       last_gps_update, passengers, private_ride_data,
                       tickVars, ride_completed, charge_sum, mode_pins,
                       passenger_pins, passenger_states, passenger_changed,
                       lockVars, sosVars, auxVars>>

\* A poll that emits for a slot whatever the level it reads.
PassengerPollLevel(i) ==
    LET current_state == passenger_pins[i]
    IN  /\ passenger_states' = [passenger_states EXCEPT ![i] = current_state]
        /\ passenger_changed' = Append(passenger_changed,
               [passenger_id |-> i, onboard |-> current_state])
        /\ handle_passenger_change(i, current_state)

\* _monitor_passengers, lines 142-149, for slot i: a level other than the
\* reported one is stored and emitted on passenger_changed, which main.py
\* line 85 connects to handle_passenger_change.
PassengerPollSlot(i) ==
    LET current_state == passenger_pins[i]
    IN  IF current_state # passenger_states[i]
        THEN /\ passenger_states' = [passenger_states EXCEPT
                                        ![i] = current_state]
             /\ passenger_changed' = Append(passenger_changed,
                    [passenger_id |-> i, onboard |-> current_state])
             /\ handle_passenger_change(i, current_state)
        ELSE UNCHANGED <<passenger_states, passenger_changed, passengers,
                         ride_completed, charge_sum>>

PassengerPoll(i) ==
    /\ PassengerPollSlot(i)
    /\ UNCHANGED <<now, gpsVars, fare_rate_per_km, last_gps_update, privVars,
                   private_ride_data, tickVars, modeVars, mode_pins,
                   passenger_pins, mode_switch_changed, lockVars, sosVars, auxVars>>

\* handle_mode_change called with a mode name, known or not (the slot is
\* public; force_mode_change, line 103, calls it too).
ModeEvent(mode_name) ==
    /\ handle_mode_change(mode_name)
    /\ UNCHANGED <<now, gps_location, gps_speed, fare_rate_per_km,
                   last_gps_update, passengers, private_ride_data, tickVars,
                   ride_completed, charge_sum, gpio_mode, samplerVars,
                   lockVars, sosVars, auxVars>>

\* The sampler of the switches and the mode controller.
NextSelector ==
    \/ \E pins \in SUBSET ModePins : ModePinsChange(pins)
    \/ \E p \in Slots : PassengerPinChange(p)
    \/ ModePoll
    \/ \E i \in Slots : PassengerPoll(i)
    \/ \E mode_name \in ModeNames : ModeEvent(mode_name)

SpecSelector == Init /\ [][NextSelector]_vars

\* -------------------------------------------------------- emergency track
\* The emergency line, the sampler's _monitor_sos_button thread, the queued
\* delivery of its signals to the main thread, SOSSystem and its countdown
\* threads, and GPIOManager's alarm-pattern threads.  The clock advances in
\* whole seconds; a sleeping thread wakes, a poll is made and a queued signal
\* is handled before the next second begins, in any order among themselves.
\* The line changes no faster than the sampler polls it (50 and 100 ms): each
\* level is seen by a poll before the next change.
Remove(seq, k) == SubSeq(seq, 1, k - 1) \o SubSeq(seq, k + 1, Len(seq))

Normal == ~sos_active /\ ~countdown_active

\* The emergency button is pressed (the line goes LOW).
LineAssert ==
    /\ ~sos_line
    /\ mon_pc = "poll"
    /\ presses < MaxPresses
    /\ sos_line' = TRUE
    /\ line_seen' = FALSE
    /\ presses' = presses + 1
    /\ line_held' = 0
    /\ assert_normal' = Normal
    /\ hold_activations' = 0
    /\ released_active' = FALSE
    /\ UNCHANGED <<now, restVars, mon_pc, press_start, gpio_sos_active,
                   sos_buzzer, sos_pattern, sos_signals, sos_active,
                   countdown_active, current_countdown, countdown_threads,
                   sos_status, deactivated_events>>

\* The emergency button is released (the line goes HIGH).  A countdown
\* thread that is alive at a release less than 5 s after its start is marked
\* (history).
LineRelease ==
    /\ sos_line
    /\ line_seen
    /\ sos_line' = FALSE
    /\ UNCHANGED line_seen
    /\ released_active' = (sos_active /\ ~countdown_active)
    /\ countdown_threads' = [k \in 1 .. Len(countdown_threads) |->
           [countdown_threads[k] EXCEPT
               !.released = @ \/ now - countdown_threads[k].started
                                        < SosHoldSeconds]]
    /\ UNCHANGED <<now, restVars, mon_pc, press_start, gpio_sos_active,
                   sos_buzzer, sos_pattern, sos_signals, sos_active,
                   countdown_active, current_countdown, sos_status, presses,
                   line_held, assert_normal, hold_activations, deactivated_events>>

\* GPIOManager.activate_sos: sets the flag and starts a pattern thread.
gpio_activate_sos ==
    /\ gpio_sos_active' = TRUE
    /\ sos_pattern' = Append(sos_pattern, [pos |-> 0, late |-> 0])
    /\ UNCHANGED sos_buzzer

\* GPIOManager.deactivate_sos: clears the flag and drives both pins LOW.
gpio_deactivate_sos ==
    /\ gpio_sos_active' = FALSE
    /\ sos_buzzer' = FALSE
    /\ UNCHANGED sos_pattern

\* _monitor_sos_button, lines 200-202: the outer poll finds the line LOW,
\* takes press_start and emits sos_button_pressed.
MonitorPoll ==
    /\ mon_pc = "poll"
    /\ sos_line
    /\ press_start' = now
    /\ line_seen' = TRUE
    /\ sos_signals' = Append(sos_signals, "pressed")
    /\ mon_pc' = "hold"
    /\ UNCHANGED <<now, restVars, sos_line, gpio_sos_active, sos_buzzer,
                   sos_pattern, sos_active, countdown_active,
                   current_countdown, countdown_threads, sos_status, presses,
                   line_held, released_active, assert_normal,
                   hold_activations, deactivated_events>>

\* _monitor_sos_button, lines 205-218: the hold loop ends, either because the
\* hold reached 5 s (the alarm is started unless it is running, and nothing
\* is emitted) or because the line is HIGH (sos_button_released is emitted
\* and the alarm stopped, if the hold was shorter than 5 s).
MonitorHold ==
    /\ mon_pc = "hold"
    /\ LET hold_time == now - press_start
       IN  IF sos_line
           THEN /\ hold_time >= SosHoldSeconds
                /\ IF ~gpio_sos_active
                   THEN gpio_activate_sos
                   ELSE UNCHANGED <<gpio_sos_active, sos_pattern, sos_buzzer>>
                /\ UNCHANGED sos_signals
           ELSE IF hold_time < SosHoldSeconds
           THEN /\ sos_signals' = Append(sos_signals, "released")
                /\ IF gpio_sos_active
                   THEN gpio_deactivate_sos
                   ELSE UNCHANGED <<gpio_sos_active, sos_pattern, sos_buzzer>>
           ELSE UNCHANGED <<sos_signals, gpio_sos_active, sos_pattern,
                            sos_buzzer>>
    /\ mon_pc' = "poll"
    /\ UNCHANGED <<now, restVars, sos_line, line_seen, press_start, sos_active,
                   countdown_active, current_countdown, countdown_threads,
                   sos_status, presses, line_held, released_active,
                   assert_normal, hold_activations, deactivated_events>>

\* handle_sos_button_press: a countdown thread is started when neither flag
\* is set.
handle_sos_button_press ==
    IF ~countdown_active /\ ~sos_active
    THEN /\ countdown_active' = TRUE
         /\ countdown_threads' = Append(countdown_threads,
                [pc |-> "check", i |-> CountdownFrom, wake |-> now,
                 started |-> now, released |-> FALSE,
                 cancelled |-> FALSE])
         /\ UNCHANGED <<sos_active, sos_status, deactivated_events>>
    ELSE UNCHANGED <<countdown_active, countdown_threads, sos_active,
                     sos_status, deactivated_events>>

\* A deactivate_sos without the test of line 105.
deactivate_sos_unconditional ==
    /\ sos_active' = FALSE
    /\ sos_status' = <<"DEACTIVATED", 0>>
    /\ deactivated_events' = deactivated_events + 1

\* SOSSystem.deactivate_sos: when active, clears the flag and emits the
\* status and sos_deactivated; otherwise does nothing.
deactivate_sos ==
    IF sos_active
    THEN /\ sos_active' = FALSE
         /\ sos_status' = <<"DEACTIVATED", 0>>
         /\ deactivated_events' = deactivated_events + 1
    ELSE UNCHANGED <<sos_active, sos_status, deactivated_events>>

\* handle_sos_button_release: cancels a countdown in progress, else
\* deactivates an active SOS.  The threads alive at a cancellation are marked
\* (history).
handle_sos_button_release ==
    IF countdown_active
    THEN /\ countdown_active' = FALSE
         /\ sos_status' = <<"CANCELLED", 0>>
         /\ countdown_threads' = [k \in 1 .. Len(countdown_threads) |->
                [countdown_threads[k] EXCEPT !.cancelled = TRUE]]
         /\ UNCHANGED <<sos_active, deactivated_events>>
    ELSE /\ deactivate_sos
         /\ UNCHANGED <<countdown_active, countdown_threads>>

\* The main thread's event loop delivers the oldest queued button signal to
\* its slot (SOSSystem.start, lines 29-30).
HandleSignal ==
    /\ sos_signals # <<>>
    /\ sos_signals' = Tail(sos_signals)
    /\ IF Head(sos_signals) = "pressed"
       THEN handle_sos_button_press
       ELSE handle_sos_button_release
    /\ UNCHANGED <<now, restVars, sos_line, line_seen, mon_pc, press_start,
                   gpio_sos_active, sos_buzzer, sos_pattern,
                   current_countdown, presses, line_held, released_active,
                   assert_normal, hold_activations>>

\* _countdown_loop, line 56, after the sleep of the previous iteration: the
\* thread returns when the countdown was cancelled.
CountdownCheck(k) ==
    /\ countdown_threads[k].pc = "check"
    /\ now >= countdown_threads[k].wake
    /\ countdown_threads' =
           (IF countdown_active
            THEN [countdown_threads EXCEPT ![k].pc = "emit"]
            ELSE Remove(countdown_threads, k))
    /\ UNCHANGED <<now, restVars, sos_line, line_seen, mon_pc, press_start,
                   gpio_sos_active, sos_buzzer, sos_pattern, sos_signals,
                   sos_active, countdown_active, current_countdown,
                   sos_status, presses, line_held, released_active,
                   assert_normal, hold_activations, deactivated_events>>

\* _countdown_loop, lines 59-63: publish the seconds remaining, then sleep.
CountdownEmit(k) ==
    /\ countdown_threads[k].pc = "emit"
    /\ current_countdown' = countdown_threads[k].i
    /\ sos_status' = <<"COUNTDOWN", countdown_threads[k].i>>
    /\ countdown_threads' = [countdown_threads EXCEPT
           ![k].pc = (IF countdown_threads[k].i > 1 THEN "check" ELSE "final"),
           ![k].i = @ - 1,
           ![k].wake = now + CountdownSleep]
    /\ UNCHANGED <<now, restVars, sos_line, line_seen, mon_pc, press_start,
                   gpio_sos_active, sos_buzzer, sos_pattern, sos_signals,
                   sos_active, countdown_active, presses, line_held,
                   released_active, assert_normal, hold_activations, deactivated_events>>

\* _countdown_loop, line 66, after the last sleep.
CountdownFinal(k) ==
    /\ countdown_threads[k].pc = "final"
    /\ now >= countdown_threads[k].wake
    /\ countdown_threads' =
           (IF countdown_active
            THEN [countdown_threads EXCEPT ![k].pc = "activate"]
            ELSE Remove(countdown_threads, k))
    /\ UNCHANGED <<now, restVars, sos_line, line_seen, mon_pc, press_start,
                   gpio_sos_active, sos_buzzer, sos_pattern, sos_signals,
                   sos_active, countdown_active, current_countdown,
                   sos_status, presses, line_held, released_active,
                   assert_normal, hold_activations, deactivated_events>>

\* SOSSystem.activate_sos: sets the flag, emits the status and the
\* sos_activated record.
activate_sos ==
    /\ sos_active' = TRUE
    /\ sos_status' = <<"ACTIVATED", 0>>
    /\ hold_activations' = hold_activations + 1

\* _countdown_loop, line 67
CountdownActivate(k) ==
    /\ countdown_threads[k].pc = "activate"
    /\ activate_sos
    /\ countdown_threads' = [countdown_threads EXCEPT ![k].pc = "clear"]
    /\ UNCHANGED <<now, restVars, sos_line, line_seen, mon_pc, press_start,
                   gpio_sos_active, sos_buzzer, sos_pattern, sos_signals,
                   countdown_active, current_countdown, presses, line_held,
                   released_active, assert_normal, deactivated_events>>

\* _countdown_loop, line 68
CountdownClear(k) ==
    /\ countdown_threads[k].pc = "clear"
    /\ countdown_active' = FALSE
    /\ countdown_threads' = Remove(countdown_threads, k)
    /\ UNCHANGED <<now, restVars, sos_line, line_seen, mon_pc, press_start,
                   gpio_sos_active, sos_buzzer, sos_pattern, sos_signals,
                   sos_active, current_countdown, sos_status, presses,
                   line_held, released_active, assert_normal,
                   hold_activations, deactivated_events>>

\* One step of a _countdown_loop thread.
CountdownStep(k) ==
    \/ CountdownCheck(k)
    \/ CountdownEmit(k)
    \/ CountdownFinal(k)
    \/ CountdownActivate(k)
    \/ CountdownClear(k)

\* _sos_pattern: position 0 is the test of the while loop (line 243), an odd
\* position drives buzzer and LED HIGH, an even one drives them LOW; after
\* the last beep the thread is back at the test.  late (history) counts, up
\* to 2, the HIGH outputs the thread made while the alarm flag was clear.
PatternStep(k) ==
    /\ LET pos == sos_pattern[k].pos
       IN  IF pos = 0
           THEN /\ sos_pattern' = (IF gpio_sos_active
                                   THEN [sos_pattern EXCEPT ![k].pos = 1]
                                   ELSE Remove(sos_pattern, k))
                /\ UNCHANGED sos_buzzer
           ELSE /\ sos_buzzer' = (pos % 2 = 1)
                /\ sos_pattern' = [sos_pattern EXCEPT
                       ![k].pos = (IF pos = 2 * NumBeeps THEN 0 ELSE pos + 1),
                       ![k].late = (IF pos % 2 = 1 /\ ~gpio_sos_active /\ @ < 2
                                    THEN @ + 1 ELSE @)]
    /\ UNCHANGED <<now, restVars, sos_line, line_seen, mon_pc, press_start,
                   gpio_sos_active, sos_signals, sos_active, countdown_active,
                   current_countdown, countdown_threads, sos_status, presses,
                   line_held, released_active, assert_normal,
                   hold_activations, deactivated_events>>

\* Something is due in the current second: a queued signal, a poll that
\* finds a change, or a countdown thread that is awake.
Due ==
    \/ sos_signals # <<>>
    \/ mon_pc = "poll" /\ sos_line
    \/ mon_pc = "hold" /\ (~sos_line \/ now - press_start >= SosHoldSeconds)
    \/ \E k \in 1 .. Len(countdown_threads) :
           \/ countdown_threads[k].pc \in {"emit", "activate", "clear"}
           \/ now >= countdown_threads[k].wake

\* A second passes on the emergency track.
SosTick ==
    /\ now < SosMaxTime
    /\ ~Due
    /\ now' = now + 1
    /\ line_held' = (IF sos_line /\ line_held < SosHoldSeconds
                     THEN line_held + 1 ELSE line_held)
    /\ UNCHANGED <<restVars, sos_line, line_seen, mon_pc, press_start,
                   gpio_sos_active,
                   sos_buzzer, sos_pattern, sos_signals, sos_active,
                   countdown_active, current_countdown, countdown_threads,
                   sos_status, presses, released_active, assert_normal,
                   hold_activations, deactivated_events>>

\* The emergency track: button, sampler, SOSSystem and its countdown threads.
NextSOS ==
    \/ LineAssert
    \/ LineRelease
    \/ MonitorPoll
    \/ MonitorHold
    \/ HandleSignal
    \/ \E k \in 1 .. Len(countdown_threads) : CountdownStep(k)
    \/ SosTick

SpecSOS == Init /\ [][NextSOS]_vars

\* An external command (manual override, SOSSystem.stop line 140) calls
\* deactivate_sos on the main thread, in whatever state the SOS system is.
ManualDeactivate ==
    /\ deactivate_sos
    /\ UNCHANGED <<now, restVars, sos_line, line_seen, mon_pc, press_start,
                   gpio_sos_active, sos_buzzer, sos_pattern, sos_signals,
                   countdown_active, current_countdown, countdown_threads,
                   presses, line_held, released_active, assert_normal,
                   hold_activations>>

\* The emergency track with external deactivation commands.
NextSOSCommand ==
    \/ NextSOS
    \/ ManualDeactivate

SpecSOSCommand == Init /\ [][NextSOSCommand]_vars

\* The same with the alarm-pattern threads running.
NextAlarm ==
    \/ NextSOS
    \/ \E k \in 1 .. Len(sos_pattern) : PatternStep(k)

SpecAlarm == Init /\ [][NextAlarm]_vars

\* A second passes, on a clock that leaves room for two full holds of the
\* emergency line.
AlarmTick ==
    /\ now < AlarmMaxTime
    /\ ~Due
    /\ now' = now + 1
    /\ line_held' = (IF sos_line /\ line_held < SosHoldSeconds
                     THEN line_held + 1 ELSE line_held)
    /\ UNCHANGED <<restVars, sos_line, line_seen, mon_pc, press_start,
                   gpio_sos_active,
                   sos_buzzer, sos_pattern, sos_signals, sos_active,
                   countdown_active, current_countdown, countdown_threads,
                   sos_status, presses, released_active, assert_normal,
                   hold_activations, deactivated_events>>

\* The emergency track with the alarm-pattern threads, on the longer clock.
NextPattern ==
    \/ LineAssert
    \/ LineRelease
    \/ MonitorPoll
    \/ MonitorHold
    \/ HandleSignal
    \/ \E k \in 1 .. Len(countdown_threads) : CountdownStep(k)
    \/ \E k \in 1 .. Len(sos_pattern) : PatternStep(k)
    \/ AlarmTick

SpecPattern == Init /\ [][NextPattern]_vars

\* The emergency track with its scheduling: the sampler thread, the main
\* thread's event loop, the countdown threads and the clock keep running.
FairSpecSOS ==
    /\ SpecSOS
    /\ WF_vars(SosTick)
    /\ WF_vars(MonitorPoll)
    /\ WF_vars(MonitorHold)
    /\ WF_vars(HandleSignal)
    /\ WF_vars(\E k \in 1 .. Len(countdown_threads) : CountdownStep(k))

\* ------------------------------------------------- fare engine, step by step
\* The fare engine at the grain of its lock: the _calculation_loop thread
\* takes FareCalculator.lock, updates one leg after the other, releases the
\* lock and stamps last_gps_update; the main thread's calls into the engine
\* wait for the lock, run their body under it and release it.

\* Position of the fare loop before the iteration of `for pid, passenger`
\* for slot 0, 1, 2.
LegPc == <<"leg0", "leg1", "leg2">>

\* Slots whose presence switch is operated in this track.
LockSlots == {0, 1}

\* The samples the GPS loop publishes in this track: moving on at speed, and
\* moved while the speed reads as standing.
LockSamples == {<<103, 15>>, <<106, 0>>}

\* Calls of the main thread into the fare engine.
MainCalls ==
    {[op |-> "passenger", id |-> p, onboard |-> b, rate |-> DefaultFareRate,
      stage |-> "wait"] : p \in LockSlots, b \in BOOLEAN}
    \cup {[op |-> o, id |-> 0, onboard |-> FALSE, rate |-> DefaultFareRate,
           stage |-> "wait"] : o \in {"start_private", "stop_private"}}
    \cup {[op |-> "set_fare_rate", id |-> 0, onboard |-> FALSE, rate |-> r,
           stage |-> "wait"] : r \in Rates \ {DefaultFareRate}}

\* Mutant: the slot of fare_updated reads the fares back under the lock.
SlotsTakingLockFareUpdated == {"fare_updated"}

\* Signals with a connected slot that acquires FareCalculator.lock: none.
\* update_fares, update_passenger, _on_distance_update, _on_duration_update
\* only touch widgets, _on_ride_completed starts a thread, total_fare_updated
\* has no slot.
SlotsTakingLock == {}

\* The signals a call emits from inside its `with self.lock:` block.  The
\* emitter and the receivers live on the main thread, so the slots run
\* inside emit().
MainEmits(call) ==
    IF call.op = "passenger"
    THEN IF call.onboard /\ ~passengers[call.id].onboard
         THEN {"fare_updated"}
         ELSE IF ~call.onboard /\ passengers[call.id].onboard
         THEN {"ride_completed"}
         ELSE {}
    ELSE IF call.op = "start_private"
    THEN {"total_fare_updated", "distance_updated", "duration_updated"}
    ELSE {}

\* _calculation_loop line 91: `with self.lock:` entered.
TickAcquire ==
    /\ pc_tick = "apply"
    /\ lock = "free"
    /\ lock' = "tick"
    /\ pc_tick' = LegPc[1]
    /\ UNCHANGED <<now, gpsVars, fare_rate_per_km, last_gps_update, passengers,
                   privVars, private_ride_data, t_location, t_speed, t_time,
                   ride_completed, charge_sum, modeVars, samplerVars,
                   main_call, fare_events, engine_calls, sosVars, auxVars>>

\* Mutant: the iteration fetches the sample and the clock again.
TickLegStepRereads(p) ==
    /\ pc_tick = LegPc[p + 1]
    /\ LET time_delta == now - last_gps_update
           after == TickLeg(passengers[p], gps_location, gps_speed, time_delta,
                            fare_rate_per_km)
       IN  /\ passengers' = [passengers EXCEPT ![p] = after]
           /\ charge_sum' = [charge_sum EXCEPT
                                ![p] = @ + (after.fare - passengers[p].fare)]
           /\ fare_events' =
                  (IF passengers[p].onboard /\ passengers[p].last_location # NoLoc
                   THEN Append(fare_events, [signal |-> "fare_updated",
                                             pid |-> p, fare |-> after.fare])
                   ELSE fare_events)
    /\ pc_tick' = (IF p + 1 < NumPassengers THEN LegPc[p + 2] ELSE "private")
    /\ UNCHANGED <<now, gpsVars, fare_rate_per_km, last_gps_update, privVars,
                   private_ride_data, t_location, t_speed, t_time,
                   ride_completed, modeVars, samplerVars, lock, main_call,
                   engine_calls, sosVars, auxVars>>

\* _calculation_loop lines 93-97, one iteration of the loop over the slots:
\* an onboard leg is updated against the loop's locals, and
\* _update_passenger_fare, unless it returned early, emits fare_updated with
\* the leg's fare (line 140).
TickLegStep(p) ==
    /\ pc_tick = LegPc[p + 1]
    /\ LET time_delta == t_time - last_gps_update
           after == TickLeg(passengers[p], t_location, t_speed, time_delta,
                            fare_rate_per_km)
       IN  /\ passengers' = [passengers EXCEPT ![p] = after]
           /\ charge_sum' = [charge_sum EXCEPT
                                ![p] = @ + (after.fare - passengers[p].fare)]
           /\ fare_events' =
                  (IF passengers[p].onboard /\ passengers[p].last_location # NoLoc
                   THEN Append(fare_events, [signal |-> "fare_updated",
                                             pid |-> p, fare |-> after.fare])
                   ELSE fare_events)
    /\ pc_tick' = (IF p + 1 < NumPassengers THEN LegPc[p + 2] ELSE "private")
    /\ UNCHANGED <<now, gpsVars, fare_rate_per_km, last_gps_update, privVars,
                   private_ride_data, t_location, t_speed, t_time,
                   ride_completed, modeVars, samplerVars, lock, main_call,
                   engine_calls, sosVars, auxVars>>

\* The total_fare_updated emissions of one _update_private_fare call: after
\* the distance charge (line 162) and after the waiting charge (line 172),
\* each with private_fare as it is then.
PrivateFareEvents(leg, current_location, current_speed, time_delta, rate) ==
    IF leg.last_location = NoLoc
    THEN <<>>
    ELSE LET distance_moved == Distance(leg.last_location, current_location)
             moved == SignificantMovement(distance_moved)
             fare_moved == IF moved
                           THEN leg.fare + DistanceFare(distance_moved, rate)
                           ELSE leg.fare
         IN  (IF moved
              THEN <<[signal |-> "total_fare_updated", fare |-> fare_moved]>>
              ELSE <<>>)
             \o (IF current_speed < MinimumSpeedThreshold
                 THEN <<[signal |-> "total_fare_updated",
                         fare |-> fare_moved + WaitingCharge(time_delta)]>>
                 ELSE <<>>)

\* _calculation_loop lines 100-101: the private leg, when a private trip is
\* active.
TickPrivateStep ==
    /\ pc_tick = "private"
    /\ LET time_delta == t_time - last_gps_update
           priv == IF private_mode_active
                   THEN UpdatePrivateFare(PrivateLeg, t_location, t_speed,
                            time_delta, fare_rate_per_km)
                   ELSE PrivateLeg
       IN  /\ private_fare' = priv.fare
           /\ private_last_location' = priv.last_location
           /\ private_distance' = priv.distance
           /\ private_waiting_time' = priv.waiting_time
           /\ fare_events' =
                  (IF private_mode_active
                   THEN fare_events \o PrivateFareEvents(PrivateLeg, t_location,
                            t_speed, time_delta, fare_rate_per_km)
                   ELSE fare_events)
    /\ pc_tick' = "release"
    /\ UNCHANGED <<now, gpsVars, fare_rate_per_km, last_gps_update, passengers,
                   private_mode_active, private_start_location,
                   private_start_time, private_max_speed, private_ride_data,
                   t_location, t_speed, t_time, ride_completed, charge_sum,
                   modeVars, samplerVars, lock, main_call, engine_calls,
                   sosVars, auxVars>>

\* The end of the `with self.lock:` block of the fare loop.
TickRelease ==
    /\ pc_tick = "release"
    /\ lock' = "free"
    /\ pc_tick' = "stamp"
    /\ UNCHANGED <<now, gpsVars, fare_rate_per_km, last_gps_update, passengers,
                   privVars, private_ride_data, t_location, t_speed, t_time,
                   ride_completed, charge_sum, modeVars, samplerVars,
                   main_call, fare_events, engine_calls, sosVars, auxVars>>

\* _calculation_loop lines 103-105: last_gps_update = current_time, outside
\* the lock, then the sleep before the next iteration.  fare_events holds the
\* emissions of one tick.
TickStamp ==
    /\ pc_tick = "stamp"
    /\ last_gps_update' = t_time
    /\ pc_tick' = "read"
    /\ t_location' = NoLoc
    /\ t_speed' = 0
    /\ t_time' = 0
    /\ fare_events' = <<>>
    /\ UNCHANGED <<now, gpsVars, fare_rate_per_km, passengers, privVars,
                   private_ride_data, ride_completed, charge_sum, modeVars,
                   samplerVars, lock, main_call, engine_calls, sosVars, auxVars>>

\* The main thread reaches the `with self.lock:` of a FareCalculator method:
\* handle_passenger_change (line 191, the slot of passenger_changed),
\* stop_private_mode (line 280), set_fare_rate (line 350), and
\* start_private_mode (line 261), which RickyUI.update_mode calls when
\* mode_switch_changed reports Private, after ModeController and the UI have
\* assigned the mode.
MainEnter(call) ==
    /\ main_call = <<>>
    /\ engine_calls < MaxCalls
    /\ engine_calls' = engine_calls + 1
    /\ main_call' = <<call>>
    /\ (call.op = "passenger" /\ ~call.onboard) =>
           Len(ride_completed) < MaxRides
    /\ call.op = "stop_private" => Len(private_ride_data) < MaxRides
    /\ IF call.op = "start_private"
       THEN /\ gpio_mode # "Private"
            /\ gpio_mode' = "Private"
            /\ mc_mode' = "Private"
            /\ ui_mode' = "Private"
            /\ mode_changed' = <<"Private">>
       ELSE UNCHANGED modeVars
    /\ UNCHANGED <<now, gpsVars, fare_rate_per_km, last_gps_update, passengers,
                   privVars, private_ride_data, tickVars, ride_completed,
                   charge_sum, samplerVars, lock, fare_events, sosVars, auxVars>>

\* threading.Lock.acquire: the caller proceeds when the lock is free.
MainAcquire ==
    /\ main_call # <<>>
    /\ main_call[1].stage = "wait"
    /\ lock = "free"
    /\ lock' = "main"
    /\ main_call' = <<[main_call[1] EXCEPT !.stage = "locked"]>>
    /\ UNCHANGED <<now, meterVars, samplerVars, fare_events, engine_calls,
                   sosVars, auxVars>>

\* The body of the method and the end of its `with` block.  A slot that
\* acquired the lock would block inside emit(): threading.Lock is not
\* reentrant.
MainBody ==
    /\ main_call # <<>>
    /\ main_call[1].stage = "locked"
    /\ MainEmits(main_call[1]) \cap SlotsTakingLock = {}
    /\ LET call == main_call[1]
       IN  IF call.op = "passenger"
           THEN /\ handle_passenger_change(call.id, call.onboard)
                /\ UNCHANGED <<gpsVars, fare_rate_per_km, privVars,
                               private_ride_data>>
           ELSE IF call.op = "start_private"
           THEN /\ start_private_mode
                /\ UNCHANGED <<gps_location, gps_speed, fare_rate_per_km,
                               passengers, private_ride_data, ride_completed,
                               charge_sum>>
           ELSE IF call.op = "stop_private"
           THEN /\ stop_private_mode
                /\ private_ride_data' =
                       private_ride_data \o stop_private_mode_result
                /\ UNCHANGED <<gps_location, gps_speed, fare_rate_per_km,
                               passengers, ride_completed, charge_sum>>
           ELSE /\ set_fare_rate(call.rate)
                /\ UNCHANGED <<gpsVars, private_ride_data, ride_completed,
                               charge_sum>>
    /\ lock' = "free"
    /\ main_call' = <<>>
    /\ UNCHANGED <<now, last_gps_update, tickVars, modeVars, samplerVars,
                   fare_events, engine_calls, sosVars, auxVars>>

NextLock ==
    \/ \E s \in LockSamples : GpsSample(s[1], s[2])
    \/ TickRead
    \/ TickAcquire
    \/ \E p \in Slots : TickLegStep(p)
    \/ TickPrivateStep
    \/ TickRelease
    \/ TickStamp
    \/ \E call \in MainCalls : MainEnter(call)
    \/ MainAcquire
    \/ MainBody

SpecLock == Init /\ [][NextLock]_vars

\* The lock protocol with one sample per second: the fares the legs reach
\* play no part in who holds the lock.
NextLockOrder ==
    \/ GpsSample(106, 0)
    \/ TickRead
    \/ TickAcquire
    \/ \E p \in Slots : TickLegStep(p)
    \/ TickPrivateStep
    \/ TickRelease
    \/ TickStamp
    \/ \E call \in MainCalls : MainEnter(call)
    \/ MainAcquire
    \/ MainBody

SpecLockOrder == Init /\ [][NextLockOrder]_vars

\* The same with its scheduling: both threads keep running, and a thread
\* that waits for the lock gets it once it is free (the fare loop sleeps
\* 0.5 s between two acquisitions).  The clock is not forced; the GPS loop
\* stops at MaxTime.
FairSpecLockOrder ==
    /\ SpecLockOrder
    /\ WF_vars(TickAcquire)
    /\ WF_vars(\E p \in Slots : TickLegStep(p))
    /\ WF_vars(TickPrivateStep)
    /\ WF_vars(TickRelease)
    /\ WF_vars(TickStamp)
    /\ WF_vars(MainAcquire)
    /\ WF_vars(MainBody)

\* ---------------------------------------------------------- presence calls
\* The slot indices a presence event may carry: the operated slots, one
\* below the range and one above it.
SlotIds == EventSlots \cup {0 - 1, NumPassengers}

\* handle_passenger_change, lines 188-192: an index below len(passengers)
\* passes the test of line 188; self.passengers is a dict with the keys
\* 0..2, so that the lookup of line 192 raises KeyError for any other index.
RaisesKeyError(passenger_id) ==
    passenger_id < NumPassengers /\ passenger_id \notin Slots

\* A call of the slot handle_passenger_change(passenger_id, onboard) with
\* any index.  The exception leaves the `with self.lock:` block and the
\* handler.
PresenceCall(passenger_id, onboard) ==
    /\ (~onboard /\ passenger_id \in Slots) => Len(ride_completed) < MaxRides
    /\ IF RaisesKeyError(passenger_id)
       THEN /\ slot_error' = TRUE
            /\ UNCHANGED <<passengers, ride_completed, charge_sum>>
       ELSE /\ slot_error' = FALSE
            /\ handle_passenger_change(passenger_id, onboard)
    /\ UNCHANGED <<now, gpsVars, fare_rate_per_km, last_gps_update, privVars,
                   private_ride_data, tickVars, modeVars, samplerVars,
                   lockVars, sosVars, geoVars, stopVars, startVars>>

\* The sharing legs with presence events of any index.
NextPresence ==
    \/ \E loc \in Locations, speed \in Speeds : GpsSample(loc, speed)
    \/ TickRead
    \/ TickApply
    \/ \E id \in SlotIds, onboard \in BOOLEAN : PresenceCall(id, onboard)

SpecPresence == Init /\ [][NextPresence]_vars

\* ------------------------------------------------- GPS loop, step by step
\* One iteration of the GPS loop at the grain of its reads and writes of the
\* trip state, which no lock guards: the sample is taken and measured
\* against previous_location (lines 105-126), total_distance_traveled is
\* read and written back increased (line 137, `+=` on an attribute is a
\* load and a store), then previous_location and current_location are
\* shifted (lines 140-141) and the thread sleeps a second.

\* Lines 105-126: the new sample and its distance from previous_location.
\* fresh (history): the sample was taken after the last reset_trip began.
GpsMeasure(loc, speed) ==
    /\ pc_gps = "sample"
    /\ now < MaxTime
    /\ g_sample' = [loc |-> loc, speed |-> speed,
                    distance_moved |->
                        (IF gps_previous_location # NoLoc
                         THEN calculate_distance(gps_previous_location, loc)
                         ELSE 0),
                    total |-> 0,
                    fresh |-> TRUE]
    /\ pc_gps' = (IF gps_previous_location # NoLoc THEN "load" ELSE "shift")
    /\ UNCHANGED <<now, meterVars, samplerVars, lockVars, sosVars, slot_error,
                   trip_moved, stopVars, startVars>>

\* Line 137, the read of self.total_distance_traveled.
GpsLoad ==
    /\ pc_gps = "load"
    /\ g_sample' = [g_sample EXCEPT !.total = gps_total_distance]
    /\ pc_gps' = "store"
    /\ UNCHANGED <<now, meterVars, samplerVars, lockVars, sosVars, slot_error,
                   trip_moved, stopVars, startVars>>

\* Line 137, the write of self.total_distance_traveled.
GpsStore ==
    /\ pc_gps = "store"
    /\ gps_total_distance' = g_sample.total + g_sample.distance_moved
    /\ trip_moved' = (IF trip_moved # NoTrip /\ g_sample.fresh
                      THEN trip_moved + g_sample.distance_moved
                      ELSE trip_moved)
    /\ pc_gps' = "shift"
    /\ UNCHANGED <<now, gps_location, gps_previous_location, gps_speed,
                   fare_rate_per_km, last_gps_update, passengers, privVars,
                   private_ride_data, tickVars, ride_completed, charge_sum,
                   modeVars, samplerVars, lockVars, sosVars, slot_error,
                   g_sample, stopVars, startVars>>

\* Lines 140-157: the shift, the publication of the sample and the sleep.
GpsShift ==
    /\ pc_gps = "shift"
    /\ gps_previous_location' = gps_location
    /\ gps_location' = g_sample.loc
    /\ gps_speed' = g_sample.speed
    /\ private_max_speed' =
           (IF private_mode_active /\ g_sample.speed > private_max_speed
            THEN g_sample.speed ELSE private_max_speed)
    /\ now' = now + 1
    /\ pc_gps' = "sample"
    /\ g_sample' = NoSample
    /\ UNCHANGED <<gps_total_distance, fare_rate_per_km, last_gps_update,
                   passengers, private_mode_active, private_fare,
                   private_start_location, private_last_location,
                   private_start_time, private_distance, private_waiting_time,
                   private_ride_data, tickVars, ride_completed, charge_sum,
                   modeVars, samplerVars, lockVars, sosVars, slot_error,
                   trip_moved, stopVars, startVars>>

\* start_private_mode lines 261-270, on the main thread under the fare
\* engine's lock: the private leg is initialised; reset_trip is next.
PrivateStartAssign ==
    /\ main_call = <<>>
    /\ lock = "free"
    /\ engine_calls < MaxCalls
    /\ engine_calls' = engine_calls + 1
    /\ lock' = "main"
    /\ main_call' = <<[op |-> "start_private", id |-> 0, onboard |-> FALSE,
                       rate |-> DefaultFareRate, stage |-> "reset_total"]>>
    /\ private_mode_active' = TRUE
    /\ private_fare' = 0
    /\ private_start_location' = gps_location
    /\ private_last_location' = gps_location
    /\ private_start_time' = now
    /\ private_distance' = 0
    /\ private_waiting_time' = 0
    /\ private_max_speed' = 0
    /\ UNCHANGED <<now, gpsVars, fare_rate_per_km, last_gps_update, passengers,
                   private_ride_data, tickVars, ride_completed, charge_sum,
                   modeVars, samplerVars, fare_events, sosVars, auxVars>>

\* reset_trip line 285: total_distance_traveled = 0.0.  A sample the GPS
\* loop has in hand was taken before this reset.
ResetTotal ==
    /\ main_call # <<>>
    /\ main_call[1].stage = "reset_total"
    /\ gps_total_distance' = 0
    /\ trip_moved' = 0
    /\ g_sample' = [g_sample EXCEPT !.fresh = FALSE]
    /\ main_call' = <<[main_call[1] EXCEPT !.stage = "reset_previous"]>>
    /\ UNCHANGED <<now, gps_location, gps_previous_location, gps_speed,
                   fare_rate_per_km, last_gps_update, passengers, privVars,
                   private_ride_data, tickVars, ride_completed, charge_sum,
                   modeVars, samplerVars, lock, fare_events, engine_calls,
                   sosVars, slot_error, pc_gps, stopVars, startVars>>

\* reset_trip line 287: previous_location = None; start_private_mode
\* returns and releases the lock.
ResetPrevious ==
    /\ main_call # <<>>
    /\ main_call[1].stage = "reset_previous"
    /\ gps_previous_location' = NoLoc
    /\ main_call' = <<>>
    /\ lock' = "free"
    /\ UNCHANGED <<now, gps_location, gps_speed, gps_total_distance,
                   fare_rate_per_km, last_gps_update, passengers, privVars,
                   private_ride_data, tickVars, ride_completed, charge_sum,
                   modeVars, samplerVars, fare_events, engine_calls, sosVars,
                   auxVars>>

\* The GPS loop and the private-trip starts of the main thread.
NextGeo ==
    \/ \E loc \in Locations, speed \in Speeds : GpsMeasure(loc, speed)
    \/ GpsLoad
    \/ GpsStore
    \/ GpsShift
    \/ PrivateStartAssign
    \/ ResetTotal
    \/ ResetPrevious

SpecGeo == Init /\ [][NextGeo]_vars

\* ------------------------------------------------------- start-up of modes
\* RickyAutometer.run starts the sampler threads first and the mode
\* controller later; the event loop that delivers queued signals runs only
\* after every start has returned.  The sampler's poll is taken at the
\* grain of its two writes: current_mode (line 181) and the emission
\* (line 189).

\* ModeController.start line 32: the handler is connected.
StartupConnect ==
    /\ mc_pc = "connect"
    /\ mc_pc' = "read"
    /\ UNCHANGED <<now, meterVars, samplerVars, lockVars, sosVars, slot_error,
                   geoVars, stopVars, mode_monitor_pc, mode_queue>>

\* A start that never looks at the mode the sampler already reports.
StartupReadSkipped ==
    /\ mc_pc = "read"
    /\ mc_pc' = "run"
    /\ UNCHANGED <<now, meterVars, samplerVars, lockVars, sosVars, slot_error,
                   geoVars, stopVars, mode_monitor_pc, mode_queue>>

\* ModeController.start lines 36-38: the mode the sampler reports is read
\* and, when it is not the controller's, handled by a direct call.
StartupRead ==
    /\ mc_pc = "read"
    /\ mc_pc' = "run"
    /\ LET initial_mode == gpio_mode
       IN  IF initial_mode # mc_mode
           THEN handle_mode_change(initial_mode)
           ELSE UNCHANGED <<mc_mode, ui_mode, mode_changed, privVars,
                            gps_previous_location, gps_total_distance>>
    /\ UNCHANGED <<now, gps_location, gps_speed, fare_rate_per_km,
                   last_gps_update, passengers, private_ride_data, tickVars,
                   ride_completed, charge_sum, gpio_mode, samplerVars,
                   lockVars, sosVars, slot_error, geoVars, stopVars,
                   mode_monitor_pc, mode_queue>>

\* _monitor_mode_switch lines 163-181: a resolved mode other than the
\* reported one is stored in current_mode.
ModeMonitorDetect ==
    LET selected_mode == ResolveMode(mode_pins)
    IN  /\ mode_monitor_pc = "poll"
        /\ selected_mode # gpio_mode
        /\ gpio_mode' = selected_mode
        /\ mode_monitor_pc' = "emit"
        /\ UNCHANGED <<now, gpsVars, fare_rate_per_km, last_gps_update,
                       passengers, privVars, private_ride_data, tickVars,
                       ride_completed, charge_sum, mc_mode, ui_mode,
                       mode_changed, samplerVars, lockVars, sosVars,
                       slot_error, geoVars, stopVars, mc_pc, mode_queue>>

\* _monitor_mode_switch line 189: mode_switch_changed.emit(selected_mode)
\* from the sampler thread.  With the handler connected the call is queued
\* to the main thread; with no connection yet the emission reaches nobody.
ModeMonitorEmit ==
    /\ mode_monitor_pc = "emit"
    /\ mode_monitor_pc' = "poll"
    /\ mode_switch_changed' = Append(mode_switch_changed, gpio_mode)
    /\ mode_queue' = (IF mc_pc # "connect"
                      THEN Append(mode_queue, gpio_mode)
                      ELSE mode_queue)
    /\ UNCHANGED <<now, meterVars, mode_pins, passenger_pins,
                   passenger_states, passenger_changed, lockVars, sosVars,
                   slot_error, geoVars, stopVars, mc_pc>>

\* The event loop (main.py line 109) delivers the oldest queued emission to
\* handle_mode_change.
DeliverMode ==
    /\ mc_pc = "run"
    /\ mode_queue # <<>>
    /\ mode_queue' = Tail(mode_queue)
    /\ handle_mode_change(Head(mode_queue))
    /\ UNCHANGED <<now, gps_location, gps_speed, fare_rate_per_km,
                   last_gps_update, passengers, private_ride_data, tickVars,
                   ride_completed, charge_sum, gpio_mode, samplerVars,
                   lockVars, sosVars, slot_error, geoVars, stopVars,
                   mc_pc, mode_monitor_pc>>

\* The rotary switch, the mode sampler and the start of the mode controller.
NextStartup ==
    \/ \E pins \in SUBSET ModePins : ModePinsChange(pins)
    \/ StartupConnect
    \/ StartupRead
    \/ ModeMonitorDetect
    \/ ModeMonitorEmit
    \/ DeliverMode

SpecStartup == Init /\ [][NextStartup]_vars

\* run() goes on to start the controller, the sampler thread keeps polling
\* and the event loop keeps delivering; the switch is under no obligation.
FairSpecStartup ==
    /\ SpecStartup
    /\ WF_vars(StartupConnect)
    /\ WF_vars(StartupRead)
    /\ WF_vars(ModeMonitorDetect)
    /\ WF_vars(ModeMonitorEmit)
    /\ WF_vars(DeliverMode)

\* ------------------------------------------------------------- global stop
\* RickyAutometer.shutdown, called by the signal handler on the main thread
\* (which then exits: the event loop handles no further signal), and the
\* loops it asks to end.  The emergency track runs as before; the other
\* polling loops are reduced to the test of their `while self.running`.

\* The object whose running flag a polling loop tests.
ManagerOf == [passenger_monitor |-> "gpio", mode_monitor |-> "gpio",
              sos_monitor |-> "gpio", gps_loop |-> "gps",
              calculation_loop |-> "fare"]

\* Positions of shutdown at which GPIOManager.cleanup has returned: with the
\* mock GPIO ("done") or with RPi.GPIO, whose channels are then closed and
\* whose input() and output() raise ("cleaned").
StopDone == {"done", "cleaned"}

\* FareCalculator.stop: running = False, join(timeout=2).
StopFare ==
    /\ pc_shutdown = "run"
    /\ pc_shutdown' = "fare"
    /\ running' = [running EXCEPT !["fare"] = FALSE]
    /\ UNCHANGED <<now, meterVars, samplerVars, lockVars, sosVars, slot_error,
                   geoVars, threads, startVars>>

\* GPSManager.stop: running = False, the port is closed, join(timeout=2).
StopGps ==
    /\ pc_shutdown = "fare"
    /\ pc_shutdown' = "gps"
    /\ running' = [running EXCEPT !["gps"] = FALSE]
    /\ UNCHANGED <<now, meterVars, samplerVars, lockVars, sosVars, slot_error,
                   geoVars, threads, startVars>>

\* SOSSystem.stop: countdown_active = False, then deactivate_sos.
StopSos ==
    /\ pc_shutdown = "gps"
    /\ pc_shutdown' = "sos"
    /\ countdown_active' = FALSE
    /\ deactivate_sos
    /\ UNCHANGED <<now, meterVars, samplerVars, lockVars, sos_line, line_seen,
                   mon_pc, press_start, gpio_sos_active, sos_buzzer,
                   sos_pattern, sos_signals, current_countdown,
                   countdown_threads, presses, line_held, released_active,
                   assert_normal, hold_activations, slot_error, geoVars,
                   running, threads, startVars>>

\* GPIOManager.cleanup lines 300-305: running = False, then the monitor
\* threads are joined for at most a second each.
CleanupStop ==
    /\ pc_shutdown = "sos"
    /\ pc_shutdown' = "joining"
    /\ running' = [running EXCEPT !["gpio"] = FALSE]
    /\ UNCHANGED <<now, meterVars, samplerVars, lockVars, sosVars, slot_error,
                   geoVars, threads, startVars>>

\* GPIOManager.cleanup lines 307-309: with RPi.GPIO the channels are closed
\* (the outputs stop driving); with the mock nothing more is done.  The
\* alarm flag is left as it is.
CleanupGpio(gpio_available) ==
    /\ pc_shutdown = "joining"
    /\ IF gpio_available
       THEN /\ pc_shutdown' = "cleaned"
            /\ sos_buzzer' = FALSE
       ELSE /\ pc_shutdown' = "done"
            /\ UNCHANGED sos_buzzer
    /\ UNCHANGED <<now, meterVars, samplerVars, lockVars, sos_line, line_seen,
                   mon_pc, press_start, gpio_sos_active, sos_pattern,
                   sos_signals, sos_active,
                   countdown_active, current_countdown, countdown_threads,
                   sos_status, presses, line_held, released_active,
                   assert_normal, hold_activations, deactivated_events,
                   slot_error, geoVars, running, threads, startVars>>

\* A polling loop is at the test of its while loop and finds running False:
\* the thread ends.  (A GPIO call that raises after cleanup leads, through
\* the except branch and its sleep, to the same test.)
LoopExit(t) ==
    /\ t \in threads
    /\ ~running[ManagerOf[t]]
    /\ t = "sos_monitor" => mon_pc = "poll"
    /\ t = "mode_monitor" => mode_monitor_pc = "poll"
    /\ t = "gps_loop" => pc_gps = "sample"
    /\ t = "calculation_loop" => pc_tick = "read"
    /\ threads' = threads \ {t}
    /\ UNCHANGED <<now, meterVars, samplerVars, lockVars, sosVars, slot_error,
                   geoVars, running, pc_shutdown, startVars>>

\* The emergency button is pressed, while the clock has room for a full
\* hold.
StopLineAssert ==
    /\ presses < StopPresses
    /\ now + SosHoldSeconds <= SosMaxTime
    /\ LineAssert

\* The outer poll of _monitor_sos_button, made while the loop runs; a hold
\* is begun only while the clock has room for the whole of it.
StopMonitorPoll ==
    /\ "sos_monitor" \in threads
    /\ running["gpio"]
    /\ now + SosHoldSeconds <= SosMaxTime
    /\ MonitorPoll

\* The hold loop of _monitor_sos_button (lines 205-211), which tests the
\* line and the hold time but not running.
StopMonitorHold ==
    /\ pc_shutdown # "cleaned"
    /\ MonitorHold

\* The hold loop after GPIO.cleanup(): GPIO.input raises, the except branch
\* of line 221 sleeps and the outer loop is back at its test.
MonitorHoldRaises ==
    /\ mon_pc = "hold"
    /\ pc_shutdown = "cleaned"
    /\ mon_pc' = "poll"
    /\ UNCHANGED <<now, restVars, sos_line, line_seen, press_start,
                   gpio_sos_active, sos_buzzer, sos_pattern, sos_signals,
                   sos_active, countdown_active, current_countdown,
                   countdown_threads, sos_status, presses, line_held,
                   released_active, assert_normal, hold_activations,
                   deactivated_events>>

\* The event loop delivers queued button signals until shutdown begins.
StopHandleSignal ==
    /\ pc_shutdown = "run"
    /\ HandleSignal

\* A pattern loop that tests only its alarm flag and survives GPIO errors.
StopPatternStepFlagOnly(k) == PatternStep(k)

\* _sos_pattern with both conditions of its while loop (line 243) and the
\* except branch (lines 279-281): the thread ends at the test when the flag
\* or running is clear, and at any output once the channels are closed.
StopPatternStep(k) ==
    /\ LET pos == sos_pattern[k].pos
       IN  IF pos = 0
           THEN /\ sos_pattern' = (IF gpio_sos_active /\ running["gpio"]
                                   THEN [sos_pattern EXCEPT ![k].pos = 1]
                                   ELSE Remove(sos_pattern, k))
                /\ UNCHANGED sos_buzzer
           ELSE IF pc_shutdown = "cleaned"
           THEN /\ sos_pattern' = Remove(sos_pattern, k)
                /\ UNCHANGED sos_buzzer
           ELSE /\ sos_buzzer' = (pos % 2 = 1)
                /\ sos_pattern' = [sos_pattern EXCEPT
                       ![k].pos = (IF pos = 2 * NumBeeps THEN 0 ELSE pos + 1),
                       ![k].late = (IF pos % 2 = 1 /\ ~gpio_sos_active /\ @ < 2
                                    THEN @ + 1 ELSE @)]
    /\ UNCHANGED <<now, restVars, sos_line, line_seen, mon_pc, press_start,
                   gpio_sos_active, sos_signals, sos_active, countdown_active,
                   current_countdown, countdown_threads, sos_status, presses,
                   line_held, released_active, assert_normal,
                   hold_activations, deactivated_events>>

\* Something is due in the current second, with the event loop and the
\* sampler as far as they still run.
StopDue ==
    \/ pc_shutdown = "run" /\ sos_signals # <<>>
    \/ /\ mon_pc = "poll" /\ sos_line
       /\ "sos_monitor" \in threads /\ running["gpio"]
       /\ now + SosHoldSeconds <= SosMaxTime
    \/ mon_pc = "hold" /\ (~sos_line \/ now - press_start >= SosHoldSeconds)
    \/ \E k \in 1 .. Len(countdown_threads) :
           \/ countdown_threads[k].pc \in {"emit", "activate", "clear"}
           \/ now >= countdown_threads[k].wake

\* A second passes.
StopTick ==
    /\ now < SosMaxTime
    /\ ~StopDue
    /\ now' = now + 1
    /\ line_held' = (IF sos_line /\ line_held < SosHoldSeconds
                     THEN line_held + 1 ELSE line_held)
    /\ UNCHANGED <<restVars, sos_line, line_seen, mon_pc, press_start,
                   gpio_sos_active,
                   sos_buzzer, sos_pattern, sos_signals, sos_active,
                   countdown_active, current_countdown, countdown_threads,
                   sos_status, presses, released_active, assert_normal,
                   hold_activations, deactivated_events>>

\* The emergency track, the polling loops and the shutdown of the program.
NextStop ==
    \/ StopLineAssert
    \/ LineRelease
    \/ StopMonitorPoll
    \/ StopMonitorHold
    \/ MonitorHoldRaises
    \/ StopHandleSignal
    \/ \E k \in 1 .. Len(countdown_threads) : CountdownStep(k)
    \/ \E k \in 1 .. Len(sos_pattern) : StopPatternStep(k)
    \/ StopTick
    \/ StopFare
    \/ StopGps
    \/ StopSos
    \/ CleanupStop
    \/ \E gpio_available \in BOOLEAN : CleanupGpio(gpio_available)
    \/ \E t \in PollingThreads : LoopExit(t)

SpecStop == Init /\ [][NextStop]_vars

\* Every thread keeps being scheduled and the clock keeps running; the
\* button and the shutdown are under no obligation.
FairSpecStop ==
    /\ SpecStop
    /\ WF_vars(StopTick)
    /\ WF_vars(StopMonitorHold)
    /\ WF_vars(MonitorHoldRaises)
    /\ WF_vars(\E k \in 1 .. Len(countdown_threads) : CountdownStep(k))
    /\ WF_vars(\E k \in 1 .. Len(sos_pattern) : StopPatternStep(k))
    /\ WF_vars(\E t \in PollingThreads : LoopExit(t))

\* ------------------------------------------------------------------ claims
Boards(p) == ~passengers[p].onboard /\ passengers'[p].onboard
Alights(p) == passengers[p].onboard /\ ~passengers'[p].onboard
TickStep == pc_tick = "apply" /\ pc_tick' = "read"
LastRide == ride_completed[Len(ride_completed)]

\* C1: a ride-completed record is emitted exactly at an onboard -> offboard
\* transition of a slot, one record per transition; it carries the values the
\* leg had before the reset (ride id, slot, times, distance, fare, waiting,
\* locations), and the step that emits it leaves the leg reset; no other step
\* changes the emitted records.
C1_RecordExactlyAtAlighting ==
    [][ /\ \A p \in Slots :
            Alights(p) =>
                /\ ride_completed' = Append(ride_completed, ride_completed'[Len(ride_completed')])
                /\ LET r == ride_completed'[Len(ride_completed')]
                       leg == passengers[p]
                   IN  /\ r.ride_id = leg.ride_id
                       /\ r.ride_id # NoRide
                       /\ r.passenger_id = p + 1
                       /\ r.start_time = leg.start_time
                       /\ r.end_time = now
                       /\ r.total_distance_km = leg.total_distance
                       /\ r.fare_amount = RoundHalfEven(leg.fare, 30)
                       /\ r.waiting_time_minutes = RoundHalfEven(leg.waiting_time, 6)
                       /\ r.start_location = leg.start_location
                       /\ r.end_location = gps_location
                       /\ r.fare_rate_per_km = fare_rate_per_km
                /\ passengers'[p].fare = 0
                /\ passengers'[p].total_distance = 0
                /\ passengers'[p].waiting_time = 0
                /\ passengers'[p].ride_id = NoRide
        /\ ride_completed' # ride_completed =>
               /\ Cardinality({p \in Slots : Alights(p)}) = 1
               /\ Len(ride_completed') = Len(ride_completed) + 1
      ]_vars

\* C1 witness: a ride that accumulated a fare and a distance has been
\* completed and its record emitted.
C1_Witness ==
    /\ Len(ride_completed) = 1
    /\ ride_completed[1].fare_amount > 0
    /\ ride_completed[1].total_distance_km > 0
    /\ ~passengers[0].onboard

\* C2: a slot that is not onboard has accumulated fare 0 and accumulated
\* distance 0 in every reachable state, whatever ticks, mode changes and
\* presence events have happened since it alighted.
C2_OffboardLegIsZero ==
    \A p \in Slots :
        ~passengers[p].onboard =>
            passengers[p].fare = 0 /\ passengers[p].total_distance = 0

\* C2 witness: after a charged ride was completed, a later sample was ticked
\* while the slot was offboard and the selector had been turned to Private
\* and on to Sharing.
C2_Witness ==
    /\ Len(ride_completed) = 1
    /\ ride_completed[1].fare_amount > 0
    /\ ~passengers[0].onboard
    /\ last_gps_update > ride_completed[1].end_time
    /\ private_mode_active
    /\ ui_mode = "Sharing"

\* C3: the fare_amount of every emitted record is the sum of the charges the
\* fare loop applied to the slot during that ride, rounded to paise; and no
\* charge is applied to a slot that is not onboard.
C3_FareIsSumOfCharges ==
    [][ \A p \in Slots :
            /\ Alights(p) =>
                   /\ Len(ride_completed') = Len(ride_completed) + 1
                   /\ ride_completed'[Len(ride_completed')].fare_amount
                          = RoundHalfEven(charge_sum[p], 30)
            /\ ~passengers'[p].onboard => charge_sum'[p] = 0
      ]_vars

\* C3 witness: a record whose fare is not a whole number of paise before
\* rounding up: 200 units (two seconds of waiting) are 6.67 paise.
C3_Witness ==
    /\ Len(ride_completed) = 1
    /\ ride_completed[1].fare_amount = 7

\* C4: a boarding transition leaves the leg with fare, distance and waiting
\* time 0, start and last location at the current GPS location, start time
\* at the current time and a ride id that is not None.
C4_BoardingResets ==
    [][ \A p \in Slots :
            Boards(p) =>
                /\ passengers'[p].fare = 0
                /\ passengers'[p].total_distance = 0
                /\ passengers'[p].waiting_time = 0
                /\ passengers'[p].start_location = gps_location
                /\ passengers'[p].last_location = gps_location
                /\ passengers'[p].start_time = now
                /\ passengers'[p].ride_id # NoRide
      ]_vars

\* C4 witness: the slot is onboard again after a first, charged ride.
C4_Witness ==
    /\ Len(ride_completed) = 1
    /\ ride_completed[1].fare_amount > 0
    /\ passengers[0].onboard
    /\ passengers[0].start_time > ride_completed[1].start_time

\* C5: two distinct boardings of a slot get different ride ids: the ride id
\* of an onboard slot differs from the id in every record already emitted
\* for that slot, and emitted records of a slot have pairwise different ids.
C5_RideIdsUnique ==
    /\ \A p \in Slots : \A i \in 1 .. Len(ride_completed) :
           (passengers[p].onboard /\ ride_completed[i].passenger_id = p + 1)
               => passengers[p].ride_id # ride_completed[i].ride_id
    /\ \A i, j \in 1 .. Len(ride_completed) :
           (i # j /\ ride_completed[i].passenger_id = ride_completed[j].passenger_id)
               => ride_completed[i].ride_id # ride_completed[j].ride_id

\* C6 as stated: the accumulated distance of an onboard slot never decreases,
\* and a tick increases it only when its sample is more than 5 m from the
\* sample immediately before it.  The tick is one that read the newest
\* sample (t_time = now) right after the tick of the sample before it
\* (last_gps_update = now - 1), so gps_previous_location is that sample.
C6_OnlyWhenConsecutiveSamplesApart ==
    [][ \A p \in Slots :
            (passengers[p].onboard /\ passengers'[p].onboard) =>
                /\ passengers'[p].total_distance >= passengers[p].total_distance
                /\ ( /\ passengers'[p].total_distance > passengers[p].total_distance
                     /\ t_time = now
                     /\ last_gps_update = now - 1 )
                       => Distance(gps_previous_location, t_location) > 5
      ]_vars

\* C6 amended: the accumulated distance of an onboard slot never decreases,
\* and it increases only in a tick whose sample is more than 5 m from the
\* slot's last_location (the boarding location or the last sample charged),
\* by exactly that distance.
C6_OnlyWhenFarFromLastLocation ==
    [][ \A p \in Slots :
            (passengers[p].onboard /\ passengers'[p].onboard) =>
                /\ passengers'[p].total_distance >= passengers[p].total_distance
                /\ passengers'[p].total_distance > passengers[p].total_distance
                       => /\ TickStep
                          /\ Distance(passengers[p].last_location, t_location) > 5
                          /\ passengers'[p].total_distance
                                 = passengers[p].total_distance
                                   + Distance(passengers[p].last_location, t_location)
      ]_vars

\* C6 witness: an onboard slot that was charged 6 m although the newest
\* sample is 3 m from the one before it.
C6_Witness ==
    /\ passengers[0].onboard
    /\ passengers[0].total_distance = 6
    /\ passengers[0].last_location = gps_location
    /\ Distance(gps_previous_location, gps_location) = 3

\* C7: one tick changes an onboard leg (a sharing slot or the private leg),
\* with moved the distance from its last_location to the tick's sample and dt
\* the tick's time delta, by exactly: fare += (moved * rate if moved > 5 m)
\* + (dt/60 * 2.0 if speed < 2.0); distance += moved and last_location :=
\* sample only if moved > 5 m; waiting += dt only if speed < 2.0.  In fare
\* units moved * rate is 3 * metres * rate and dt/60 * 2.0 is 100 * seconds.
C7_TickArithmetic ==
    [][ TickStep =>
          LET dt == t_time - last_gps_update
              wait == IF t_speed < 2 THEN dt ELSE 0
          IN  /\ \A p \in Slots :
                    passengers[p].onboard =>
                        LET leg == passengers[p]
                            moved == Distance(leg.last_location, t_location)
                            far == moved > 5
                        IN  /\ passengers'[p].fare = leg.fare
                                   + (IF far THEN 3 * moved * fare_rate_per_km ELSE 0)
                                   + 100 * wait
                            /\ passengers'[p].total_distance = leg.total_distance
                                   + (IF far THEN moved ELSE 0)
                            /\ passengers'[p].last_location
                                   = (IF far THEN t_location ELSE leg.last_location)
                            /\ passengers'[p].waiting_time = leg.waiting_time + wait
              /\ private_mode_active =>
                    LET moved == Distance(private_last_location, t_location)
                        far == moved > 5
                    IN  /\ private_fare' = private_fare
                               + (IF far THEN 3 * moved * fare_rate_per_km ELSE 0)
                               + 100 * wait
                        /\ private_distance' = private_distance
                               + (IF far THEN moved ELSE 0)
                        /\ private_last_location'
                               = (IF far THEN t_location ELSE private_last_location)
                        /\ private_waiting_time' = private_waiting_time + wait
      ]_vars

\* C7 witness: a sharing leg and the private leg that were each charged for
\* distance and for waiting in one tick: 6 m at rate 12 and one second.
C7_Witness ==
    /\ passengers[0].onboard
    /\ passengers[0].total_distance = 6
    /\ passengers[0].waiting_time = 1
    /\ passengers[0].fare = 3 * 6 * 12 + 100
    /\ private_mode_active
    /\ private_distance = 6
    /\ private_waiting_time = 1
    /\ private_fare = 3 * 6 * 12 + 100

C9_RateChangeNotRetroactive ==
    [][ /\ fare_rate_per_km' # fare_rate_per_km =>
               /\ passengers' = passengers
               /\ private_fare' = private_fare
               /\ private_distance' = private_distance
               /\ private_waiting_time' = private_waiting_time
        /\ TickStep =>
               /\ fare_rate_per_km' = fare_rate_per_km
               /\ \A p \in Slots :
                      passengers'[p].fare - passengers[p].fare
                        - 100 * (passengers'[p].waiting_time - passengers[p].waiting_time)
                      = 3 * fare_rate_per_km
                          * (passengers'[p].total_distance - passengers[p].total_distance)
               /\ private_fare' - private_fare
                        - 100 * (private_waiting_time' - private_waiting_time)
                      = 3 * fare_rate_per_km * (private_distance' - private_distance)
      ]_vars

\* C9 witness: after the rate was raised to 15 both legs hold a distance
\* charge at 15 and nothing else.
C9_Witness ==
    /\ fare_rate_per_km = 15
    /\ passengers[0].onboard
    /\ passengers[0].total_distance = 6
    /\ passengers[0].fare = 3 * 6 * 15
    /\ private_mode_active
    /\ private_distance = 6
    /\ private_fare = 3 * 6 * 15

\* C10: once the mode has changed from Private to another mode the private
\* leg no longer accumulates: while the operating mode is not Private no
\* step changes the private fare or the private distance.
C10_PrivateStopsOnLeaving ==
    [][ (mc_mode # "Private" /\ mc_mode' # "Private") =>
            /\ private_fare' = private_fare
            /\ private_distance' = private_distance
      ]_vars

C12_StopHasAlightingSemantics ==
    [][ /\ (private_mode_active /\ ~private_mode_active') =>
               /\ Len(private_ride_data') = Len(private_ride_data) + 1
               /\ private_fare' = 0
               /\ private_distance' = 0
               /\ private_waiting_time' = 0
               /\ private_start_location' = NoLoc
               /\ private_last_location' = NoLoc
               /\ private_start_time' = NoTime
        /\ private_ride_data' # private_ride_data =>
               /\ private_mode_active /\ ~private_mode_active'
               /\ Len(private_ride_data') = Len(private_ride_data) + 1
      ]_vars

\* C13: the max_speed of a private ride record is the maximum speed over the
\* samples of that trip: no sample published between the entry into Private
\* and the stop is faster than it (max_speed is in tenths of a km/h).
C13_MaxSpeedIsTripMaximum ==
    [][ private_ride_data' # private_ride_data =>
            private_ride_data'[Len(private_ride_data')].max_speed
                >= 10 * private_max_speed
      ]_vars

\* C14: with the vehicle standing still at rate 12, whenever the fare loop
\* has caught up with the clock the private fare is the waiting charge of the
\* time since Private was entered (2.00 for 60 seconds, 100 fare units per
\* second) and the private distance is 0, wherever the entry fell relative
\* to the loop's last tick.
C14_StationaryFareIsElapsedWaiting ==
    (private_mode_active /\ pc_tick = "read" /\ last_gps_update = now) =>
        /\ private_fare = WaitingUnitsPerSecond * (now - private_start_time)
        /\ private_distance = 0

PressHandled ==
    /\ sos_signals # <<>>
    /\ Head(sos_signals) = "pressed"
    /\ sos_signals' = Tail(sos_signals)
ReleaseHandled ==
    /\ sos_signals # <<>>
    /\ Head(sos_signals) = "released"
    /\ sos_signals' = Tail(sos_signals)
Emits(k) ==
    /\ countdown_threads[k].pc = "emit"
    /\ Len(countdown_threads') = Len(countdown_threads)
    /\ countdown_threads'[k].pc # "emit"

Activates(k) ==
    /\ countdown_threads[k].pc = "activate"
    /\ Len(countdown_threads') = Len(countdown_threads)
    /\ countdown_threads'[k].pc = "clear"

\* C15: hold-to-arm: a countdown activates SOS only if the line was not
\* released early since that countdown was started; at the least, a
\* countdown that did see an early release never activates SOS before the
\* press now held has lasted the full countdown.
C15_ActiveOnlyAfterFullHold ==
    [][ \A k \in 1 .. Len(countdown_threads) :
            Activates(k) =>
                \/ ~countdown_threads[k].released
                \/ line_held >= SosHoldSeconds
      ]_vars

\* C16: a release handled while a countdown is in progress leaves the state
\* Normal with the cancellation status emitted, and from then on every
\* countdown thread that was cancelled makes no further transition: it is
\* never again at a step that emits a status, activates SOS or writes a flag.
C16_ReleaseCancelsCountdown ==
    [][ /\ (ReleaseHandled /\ countdown_active) =>
               /\ ~countdown_active'
               /\ ~sos_active'
               /\ sos_status' = <<"CANCELLED", 0>>
        /\ \A k \in 1 .. Len(countdown_threads') :
               countdown_threads'[k].cancelled =>
                   countdown_threads'[k].pc \in {"check", "final"}
      ]_vars

\* C17: once the emergency line has been released while the SOS state was
\* Active and the sampler and the main thread have nothing left to do for
\* that release, the SOS state is Normal and the alarm is off.
C17_ReleaseWhileActiveDeactivates ==
    (released_active /\ ~sos_line /\ mon_pc = "poll" /\ sos_signals = <<>>) =>
        (~sos_active /\ ~gpio_sos_active)

\* C18: an assertion of the emergency line that began in state Normal and
\* has lasted 5 seconds leads to exactly one activation record for that
\* hold: one is eventually emitted, and never a second one.
C18_FullHoldActivatesOnce ==
    /\ (assert_normal /\ line_held >= SosHoldSeconds) ~> (hold_activations = 1)
    /\ [](assert_normal => hold_activations <= 1)

\* C19: a press handled in state Normal starts exactly one countdown thread,
\* a press handled in any other state starts none, and the countdown statuses
\* come from the countdown started last, as 5, 4, 3, 2, 1, the status n at
\* 5 - n seconds after its start.
C19_OneCountdownPerPress ==
    [][ /\ (PressHandled /\ Normal) =>
               /\ Len(countdown_threads') = Len(countdown_threads) + 1
               /\ countdown_threads'[Len(countdown_threads')].i = CountdownFrom
        /\ (PressHandled /\ ~Normal) => countdown_threads' = countdown_threads
        /\ \A k \in 1 .. Len(countdown_threads) :
               Emits(k) =>
                   /\ k = Len(countdown_threads)
                   /\ sos_status' = <<"COUNTDOWN",
                          CountdownFrom - (now - countdown_threads[k].started)>>
      ]_vars

\* C20: after the alarm is deactivated a pattern thread drives no further
\* HIGH output, the cancellation being observed at every step: at most the
\* one HIGH whose step had already tested the flag is driven with the flag
\* clear, never a second one.
C20_NoHighAfterDeactivation ==
    \A k \in 1 .. Len(sos_pattern) : sos_pattern[k].late <= 1

\* C21: deactivation is idempotent: no step taken while SOS is not active
\* emits a deactivation (status or sos_deactivated event) or changes the
\* active flag other than by an activation, so deactivate_sos from Normal is
\* a no-op; and a step that ends Active emits exactly one sos_deactivated
\* with the status Deactivated, after which a second call is the no-op above.
C21_DeactivateIdempotent ==
    [][ /\ ~sos_active =>
               /\ deactivated_events' = deactivated_events
               /\ sos_status' # sos_status => sos_status'[1] # "DEACTIVATED"
        /\ (sos_active /\ ~sos_active') =>
               /\ deactivated_events' = deactivated_events + 1
               /\ sos_status' = <<"DEACTIVATED", 0>>
        /\ deactivated_events' # deactivated_events => sos_active
      ]_vars

\* C21 witness: SOS was activated and deactivated once, and the state is
\* Normal with that one event counted (every further deactivate_sos is
\* offered in this state).
C21_Witness ==
    /\ ~sos_active
    /\ ~countdown_active
    /\ hold_activations = 1
    /\ deactivated_events = 1
    /\ sos_status = <<"DEACTIVATED", 0>>

\* C22: in every reachable state the SOS state is exactly one of Normal,
\* Countdown(n) with n in 1..5, or Active: while a countdown is in progress
\* the seconds remaining are between 1 and 5, and countdown-in-progress and
\* Active never hold together.
C22_SosStateIsOneVariant ==
    /\ countdown_active => current_countdown \in 1 .. CountdownFrom
    /\ ~(countdown_active /\ sos_active)

\* C23: exactly one operating mode is active after every event: the mode
\* controller's mode is For Hire initially and one of the four modes after
\* every step; a step that changes it emits mode_changed with the new mode,
\* and a step that leaves it unchanged (an event naming the current mode or
\* an unknown mode) emits nothing.
C23_ExactlyOneModeActive ==
    /\ mc_mode = "For Hire"
    /\ [][ /\ mc_mode' \in MODES
           /\ mc_mode' # mc_mode => mode_changed' = <<mc_mode'>>
           /\ mc_mode' = mc_mode => mode_changed' \in {mode_changed, <<>>}
         ]_vars

\* C23 witness: after the switch was polled into Sharing, an event naming
\* the current or an unknown mode was handled: nothing was emitted and the
\* mode is still Sharing.
C23_Witness ==
    /\ mc_mode = "Sharing"
    /\ gpio_mode = "Sharing"
    /\ mode_switch_changed # <<>>
    /\ mode_changed = <<>>

\* C24: the mode a selector poll reports is a function of the four line
\* levels: Private if the Private line is asserted, else Sharing, else
\* Waiting, else For Hire (so For Hire with no line asserted and the
\* asserted line's mode with exactly one); every poll resolves to it and
\* every emission on mode_switch_changed carries it.
C24_PollResolvesByPriority ==
    [][ LET priority_mode ==
                IF "mode_private" \in mode_pins THEN "Private"
                ELSE IF "mode_sharing" \in mode_pins THEN "Sharing"
                ELSE IF "mode_waiting" \in mode_pins THEN "Waiting"
                ELSE "For Hire"
        IN  /\ ResolveMode(mode_pins) = priority_mode
            /\ Len(mode_switch_changed') > Len(mode_switch_changed) =>
                   /\ mode_switch_changed'[Len(mode_switch_changed')]
                          = priority_mode
                   /\ gpio_mode' = priority_mode
      ]_vars

\* C24 witness: with the Sharing and For Hire lines both asserted the poll
\* reported Sharing; an earlier poll had reported Waiting.
C24_Witness ==
    /\ mode_pins = {"mode_sharing", "mode_for_hire"}
    /\ gpio_mode = "Sharing"
    /\ mode_switch_changed = <<"Waiting", "Sharing">>

\* C25: the sampler is edge-triggered: every passenger_changed emission
\* carries the level just polled on its line, which differs from the state
\* last reported for that slot, and every mode_switch_changed emission
\* carries a mode other than the one last reported; so the events of a slot
\* alternate, starting with onboard, and no two consecutive mode events name
\* the same mode.
C25_SamplerIsEdgeTriggered ==
    /\ [][ /\ Len(passenger_changed') > Len(passenger_changed) =>
                  LET e == passenger_changed'[Len(passenger_changed')]
                  IN  /\ Len(passenger_changed') = Len(passenger_changed) + 1
                      /\ e.onboard = passenger_pins[e.passenger_id]
                      /\ e.onboard # passenger_states[e.passenger_id]
                      /\ passenger_states'[e.passenger_id] = e.onboard
           /\ Len(mode_switch_changed') > Len(mode_switch_changed) =>
                  /\ Len(mode_switch_changed') = Len(mode_switch_changed) + 1
                  /\ mode_switch_changed'[Len(mode_switch_changed')]
                         # gpio_mode
           /\ passenger_states' # passenger_states =>
                  Len(passenger_changed') > Len(passenger_changed)
           /\ gpio_mode' # gpio_mode =>
                  Len(mode_switch_changed') > Len(mode_switch_changed)
         ]_vars
    /\ [](\A p \in Slots :
             LET mine == SelectSeq(passenger_changed,
                                   LAMBDA e : e.passenger_id = p)
             IN  \A k \in 1 .. Len(mine) : mine[k].onboard = (k % 2 = 1))
    /\ [](\A k \in 1 .. Len(mode_switch_changed) - 1 :
             mode_switch_changed[k] # mode_switch_changed[k + 1])

\* C25 witness: slot 0 was reported onboard and then offboard, and all lines
\* are now in their reported state, so that every further poll is a
\* steady-state poll.
C25_Witness ==
    /\ passenger_changed = <<[passenger_id |-> 0, onboard |-> TRUE],
                             [passenger_id |-> 0, onboard |-> FALSE]>>
    /\ passenger_states = passenger_pins
    /\ ResolveMode(mode_pins) = gpio_mode

\* C26: a step that changes the operating mode into Sharing, For Hire or
\* Waiting leaves every passenger leg as it was, and a passenger leg is
\* changed only by a fare tick or by a presence event of its slot, whatever
\* the mode is.
C26_ModeChangeKeepsLegs ==
    [][ /\ (mc_mode' # mc_mode
             /\ mc_mode' \in {"Sharing", "For Hire", "Waiting"}) =>
               passengers' = passengers
        /\ \A p \in Slots :
               passengers'[p] # passengers[p] =>
                   TickStep \/ Boards(p) \/ Alights(p)
      ]_vars

\* C26 witness: the mode was changed to Waiting with slot 0 on board and
\* charged; its leg is still on board with its fare.
C26_Witness ==
    /\ mc_mode = "Waiting"
    /\ passengers[0].onboard
    /\ passengers[0].fare > 0
    /\ passengers[0].total_distance > 0

\* A countdown thread is inside a read-modify-write of the SOS flags: it has
\* tested countdown_active (line 56 or 66) and not yet done the writes that
\* depend on the test (lines 59, 67-68).
InSosUpdate(k) == countdown_threads[k].pc \in {"emit", "activate", "clear"}

\* C27: the read-modify-writes of the shared SOS state are serialized: while
\* a countdown thread is inside one, it holds the lock, so that the main
\* thread's button handlers do not write the SOS flags and no second
\* countdown thread is inside one.
C27_SharedStateSerialized ==
    [][ \A k \in 1 .. Len(countdown_threads) :
            InSosUpdate(k) =>
                /\ lock # "free"
                /\ (PressHandled \/ ReleaseHandled) =>
                       UNCHANGED <<sos_active, countdown_active>>
                /\ \A j \in 1 .. Len(countdown_threads) :
                       InSosUpdate(j) => j = k
      ]_vars

\* The fare loop is inside its `with self.lock:` block.
TickInsideLock == pc_tick \in {"leg0", "leg1", "leg2", "private", "release"}

\* C28: the lock is held only inside a `with` block, never at the fare
\* loop's sleep nor by an idle main thread, every acquisition is followed by
\* a release (the bodies that emit signals included), and a thread that
\* waits for the lock gets it.
C28_LockAlwaysReleased ==
    /\ [](lock = "tick" <=> TickInsideLock)
    /\ [](lock = "main" <=> (main_call # <<>> /\ main_call[1].stage = "locked"))
    /\ (lock = "tick") ~> (lock = "free")
    /\ (lock = "main") ~> (lock = "free")
    /\ (main_call # <<>>) ~> (main_call = <<>>)
    /\ (pc_tick = "apply") ~> (pc_tick = "stamp")

\* The main thread holds the lock in a body that emits a signal while the
\* fare loop waits for the lock.
C28_Witness ==
    /\ lock = "main"
    /\ pc_tick = "apply"
    /\ MainEmits(main_call[1]) # {}

\* The locals of the fare loop's iteration: current_location, current_speed
\* and time_delta.
TickInputs == <<t_location, t_speed, t_time - last_gps_update>>

\* C29: from the acquisition of the lock to its release the location, speed
\* and time-delta of the tick stay the same, and every leg the tick changes,
\* the sharing legs and the private leg, was onboard and is updated against
\* these values.
C29_TickUsesOneSample ==
    [][ (lock = "tick" /\ lock' = "tick") =>
            /\ TickInputs' = TickInputs
            /\ \A p \in Slots :
                   passengers'[p] # passengers[p] =>
                       /\ passengers[p].onboard
                       /\ passengers'[p] =
                              UpdatePassengerFare(passengers[p], TickInputs[1],
                                  TickInputs[2], TickInputs[3], fare_rate_per_km)
            /\ PrivateLeg' # PrivateLeg =>
                   /\ private_mode_active
                   /\ PrivateLeg' =
                          UpdatePrivateFare(PrivateLeg, TickInputs[1],
                              TickInputs[2], TickInputs[3], fare_rate_per_km)
      ]_vars

\* Two onboard legs have been charged by the tick in progress, after the GPS
\* loop published a different sample and the clock moved on.
C29_Witness ==
    /\ pc_tick = "private"
    /\ passengers[0].onboard /\ passengers[1].onboard
    /\ Len(fare_events) = 2
    /\ gps_location # t_location
    /\ gps_speed # t_speed
    /\ now # t_time
    /\ charge_sum[0] > 0 /\ charge_sum[1] > 0

\* The fare a leg has now, as an emission of the tick names the leg.
CommittedFare(e) ==
    IF e.signal = "fare_updated" THEN passengers[e.pid].fare ELSE private_fare

\* C30: a tick emits its fare events only once it has mutated all its legs:
\* no leg is mutated after an event of the same tick was emitted, and at the
\* release of the lock every event of the tick carries the fare its leg has
\* been left with.
C30_FareEventsFollowMutation ==
    [][ /\ (lock = "tick" /\ (passengers' # passengers \/ PrivateLeg' # PrivateLeg))
               => fare_events = <<>>
        /\ (pc_tick = "release" /\ pc_tick' = "stamp")
               => \A k \in 1 .. Len(fare_events) :
                      fare_events[k].fare = CommittedFare(fare_events[k])
      ]_vars

\* An iteration of the GPS loop accepts a sample.
SampleAccepted == now' = now + 1

\* C36: every accepted sample that has a sample before it adds to the trip
\* distance the distance between that sample and itself, so that the total
\* is the length of the sampled path.  (previous_location is set once a
\* first sample has been accepted.)
C36_TotalIsPathLength ==
    [][ (SampleAccepted /\ gps_previous_location # NoLoc) =>
            gps_total_distance' =
                gps_total_distance + calculate_distance(gps_location, gps_location')
      ]_vars

\* The selector enters Private: start_private_mode runs.
EntersPrivate == mc_mode # "Private" /\ mc_mode' = "Private"

\* C35: when start_private_mode zeroes a private trip that has accrued fare
\* or distance, a ride record of that trip (the one with its start time)
\* has been produced.
C35_PrivateTripNotDiscarded ==
    [][ (EntersPrivate /\ (private_fare > 0 \/ private_distance > 0)) =>
            \E k \in 1 .. Len(private_ride_data) :
                private_ride_data[k].start_time = private_start_time
      ]_vars

\* C37: a countdown whose cancellation status has been emitted emits no
\* countdown status afterwards, so that a countdown status is the last one
\* emitted only while a countdown is in progress.
C37_NoCountdownStatusAfterCancel ==
    /\ [][ \A k \in 1 .. Len(countdown_threads) :
               Emits(k) => ~countdown_threads[k].cancelled ]_vars
    /\ [](sos_status[1] = "COUNTDOWN" => countdown_active)

\* C39: at most one alarm-pattern thread drives the pattern: no two threads
\* are inside the body of their loop at once.
C39_OnePatternTask ==
    \A j, k \in 1 .. Len(sos_pattern) :
        j # k => (sos_pattern[j].pos = 0 \/ sos_pattern[k].pos = 0)

\* Nothing is in flight on the emergency track: no queued button signal, no
\* countdown thread, and the sampler has nothing to report in this second.
SosQuiescent ==
    /\ sos_signals = <<>>
    /\ countdown_threads = <<>>
    /\ ~Due

\* C34: in every quiescent state the alarm flag of GPIOManager equals the
\* active flag of SOSSystem.
C34_AlarmFollowsSosState ==
    SosQuiescent => (gpio_sos_active = sos_active)

\* A presence event that is not a boarding of a free slot nor an alighting
\* of an occupied one.
InvalidPresence(passenger_id, onboard) ==
    \/ passenger_id \notin Slots
    \/ passengers[passenger_id].onboard = onboard

\* C33: an invalid presence event leaves the legs as they are, emits no
\* ride-completed record, and its handler raises no error.
C33_InvalidPresenceIsNoOp ==
    [][ \A id \in SlotIds, onboard \in BOOLEAN :
            (PresenceCall(id, onboard) /\ InvalidPresence(id, onboard)) =>
                /\ UNCHANGED <<passengers, ride_completed>>
                /\ ~slot_error'
      ]_vars

\* C31: once a private-trip start has completed and the GPS loop is between
\* two iterations, the trip distance is the distance added by the samples
\* taken since the reset, and nothing else.
C31_ResetTripZeroesDistance ==
    (trip_moved # NoTrip /\ main_call = <<>> /\ pc_gps = "sample") =>
        gps_total_distance = trip_moved

\* The controller has started, nothing is queued or about to be emitted, and
\* the sampler reports what the switch selects.
ModesSettled ==
    /\ mc_pc = "run"
    /\ mode_queue = <<>>
    /\ mode_monitor_pc = "poll"
    /\ gpio_mode = ResolveMode(mode_pins)

\* C38: after start-up the mode controller's mode eventually equals the
\* sampler's mode for good, whichever way the sampler's first detection
\* interleaves with the connection and the initial read, and once the two
\* are settled and equal they stay equal while the switch is not turned.
C38_StartupModeConverges ==
    /\ <>[](mc_mode = gpio_mode)
    /\ [][(ModesSettled /\ mc_mode = gpio_mode /\ mode_pins' = mode_pins)
              => mc_mode' = gpio_mode']_vars

\* The sampler emitted a mode before the handler was connected: the
\* emission is lost, and the connected controller is about to read.
C38_Witness ==
    /\ mc_pc = "read"
    /\ mode_switch_changed # <<>>
    /\ mode_queue = <<>>
    /\ gpio_mode # mc_mode

\* No polling loop, countdown thread or alarm-pattern thread is left.
AllTasksEnded ==
    /\ threads = {}
    /\ countdown_threads = <<>>
    /\ sos_pattern = <<>>

\* C32: once shutdown has made its four stop calls, every polling loop,
\* countdown thread and alarm-pattern thread eventually ends, and none is
\* left or started from then on, whatever the emergency line does.
C32_StopEndsEveryTask ==
    (pc_shutdown \in StopDone) ~> [] AllTasksEnded

\* Shutdown has completed while the emergency line is held, the sampler is
\* inside its hold loop and a countdown thread is alive.
C32_Witness ==
    /\ pc_shutdown \in StopDone
    /\ sos_line
    /\ mon_pc = "hold"
    /\ "sos_monitor" \in threads
    /\ countdown_threads # <<>>
====
